---------------------------- MODULE Spec2Model ----------------------------
(***************************************************************************)
(* Model of the mcp-image-extractor content resolution and normalisation   *)
(* pipeline: read-visual.ts (source classification, unified entry point),  *)
(* pdf-utils.ts (document page rendering entry points) and image-utils.ts  *)
(* (region extraction, bounded resize, compression, response assembly).    *)
(*                                                                         *)
(* Strings are sequences of one-character strings.  Region coordinates are *)
(* rationals n/Q kept as the integer n (Q = 20: quarters and tenths).      *)
(***************************************************************************)
EXTENDS Integers, Sequences, FiniteSets, TLC

VARIABLES
    \* --- source classification (detectSourceType) ---
    dSource,      \* the reference string handed to detectSourceType
    dExists,      \* what fs.existsSync(source) answers
    dResult,      \* the SourceType returned, "none" before the call
    dConsulted,   \* whether the plausible-base64 rule was evaluated
    \* --- processImageBuffer on its own ---
    fImage,       \* the image buffer handed to processImageBuffer
    fMax,         \* DEFAULT_MAX_WIDTH / DEFAULT_MAX_HEIGHT of the process
    fXyxy,        \* params.focus_xyxy
    fFocal,       \* params.focal_point
    fOut,         \* what processImageBuffer returned or threw
    \* --- the entry points ---
    config,       \* ALLOWED_DOMAINS and MAX_IMAGE_SIZE as read from the environment
    pc,           \* where the request in progress stands
    req,          \* the entry point called and its params
    loc,          \* the locals of the request in progress
    log,          \* the collaborator calls made for it, in order
    resp,         \* the McpToolResponse the entry point resolved to
    pdfToImgMod_pdfUtils,    \* pdfToImgMod of pdf-utils.ts: loaded or null
    pdfToImgMod_readVisual,  \* pdfToImgMod of read-visual.ts: loaded or null
    \* --- requests in flight at the same time ---
    tasks,        \* per pending promise: its request, locals, calls, response
    served,       \* the number of tool calls received so far
    imports,      \* the number of import('pdf-to-img') expressions evaluated
    failed,       \* the number of requests that have ended in an error
    installed     \* whether import('pdf-to-img') resolves in this process

dvars == <<dSource, dExists, dResult, dConsulted>>
fvars == <<fImage, fMax, fXyxy, fFocal, fOut>>
pvars == <<config, pc, req, loc, log, resp,
           pdfToImgMod_pdfUtils, pdfToImgMod_readVisual>>
cvars == <<tasks, served, imports, failed, installed>>
vars == <<dvars, fvars, pvars, cvars>>

-----------------------------------------------------------------------------
(* Characters and string helpers *)

Upper == {"A","B","C","D","E","F","G","H","I","J","K","L","M",
          "N","O","P","Q","R","S","T","U","V","W","X","Y","Z"}
Lower == {"a","b","c","d","e","f","g","h","i","j","k","l","m",
          "n","o","p","q","r","s","t","u","v","w","x","y","z"}
Digit == {"0","1","2","3","4","5","6","7","8","9"}
AlphaChars == Upper \cup Lower
AlnumChars == AlphaChars \cup Digit
B64Chars == AlnumChars \cup {"+", "/"}
SepChars == {"\\", "/"}
\* the characters JavaScript's \s matches, among those the model uses
WhiteSpace == {" ", "\t", "\n", "\r"}

Rep(c, n) == [i \in 1..n |-> c]

\* String.prototype.startsWith
startsWith(s, p) ==
    /\ Len(s) >= Len(p)
    /\ \A i \in 1..Len(p) : s[i] = p[i]

\* String.prototype.endsWith
endsWith(s, p) ==
    /\ Len(s) >= Len(p)
    /\ \A i \in 1..Len(p) : s[Len(s) - Len(p) + i] = p[i]

\* String.prototype.includes, for a single character
includes(s, c) == \E i \in 1..Len(s) : s[i] = c

\* str.replace(/\s+/g, '')
stripWhitespace(s) == SelectSeq(s, LAMBDA c : c \notin WhiteSpace)

\* /^[A-Za-z0-9+/]+={0,2}$/.test(b64)
matchesBase64Regex(b64) ==
    \E k \in 0..2 :
        /\ Len(b64) - k >= 1
        /\ \A i \in 1..(Len(b64) - k) : b64[i] \in B64Chars
        /\ \A i \in (Len(b64) - k + 1)..Len(b64) : b64[i] = "="

-----------------------------------------------------------------------------
(* Source Classifier: read-visual.ts detectSourceType and its helpers *)

MIN_BASE64_LEN == 100
MAX_EXT_PATH_LEN == 500

sHTTP == <<"h","t","t","p",":","/","/">>
sHTTPS == <<"h","t","t","p","s",":","/","/">>
sDATA == <<"d","a","t","a",":">>
sUNC == <<"\\","\\">>
sSLASH == <<"/">>

\* /^[A-Za-z]:[\\\/]/.test(str)
isDrivePath(str) ==
    /\ Len(str) >= 3
    /\ str[1] \in AlphaChars
    /\ str[2] = ":"
    /\ str[3] \in SepChars

\* /^\.{0,2}[\\\/]/.test(str)
isRelativePath(str) ==
    \E k \in 0..2 :
        /\ Len(str) >= k + 1
        /\ \A i \in 1..k : str[i] = "."
        /\ str[k + 1] \in SepChars

\* /\.[a-zA-Z0-9]+$/.test(str)
hasExtension(str) ==
    \E i \in 1..(Len(str) - 1) :
        /\ str[i] = "."
        /\ \A j \in (i + 1)..Len(str) : str[j] \in AlnumChars

isFilePath(str) ==
    IF isDrivePath(str) THEN TRUE
    ELSE IF startsWith(str, sUNC) THEN TRUE
    ELSE IF startsWith(str, sSLASH) THEN TRUE
    ELSE IF isRelativePath(str) THEN TRUE
    ELSE IF hasExtension(str) /\ ~includes(str, " ") /\ Len(str) < MAX_EXT_PATH_LEN
         THEN TRUE
    ELSE FALSE

\* isValidBase64 with the length test off by one (<= for <)
isValidBase64_OffByOne(str) ==
    IF Len(str) <= MIN_BASE64_LEN THEN FALSE
    ELSE LET b64 == stripWhitespace(str)
         IN  IF Len(b64) % 4 # 0 THEN FALSE
             ELSE matchesBase64Regex(b64)

isValidBase64(str) ==
    IF Len(str) < MIN_BASE64_LEN THEN FALSE
    ELSE LET b64 == stripWhitespace(str)
         IN  IF Len(b64) % 4 # 0 THEN FALSE
             ELSE matchesBase64Regex(b64)

\* detectSourceType with the path-shape test moved before the data: test
detectSourceTypeTrace_PathFirst(source, exists) ==
    IF startsWith(source, sHTTP) \/ startsWith(source, sHTTPS)
    THEN [type |-> "url", consulted |-> FALSE]
    ELSE IF isFilePath(source)
    THEN [type |-> "file", consulted |-> FALSE]
    ELSE IF startsWith(source, sDATA)
    THEN [type |-> "base64", consulted |-> FALSE]
    ELSE IF isValidBase64(source)
    THEN [type |-> "base64", consulted |-> TRUE]
    ELSE [type |-> "file", consulted |-> TRUE]

\* detectSourceType with the base64 test moved before the path-shape test
detectSourceTypeTrace_Base64First(source, exists) ==
    IF startsWith(source, sHTTP) \/ startsWith(source, sHTTPS)
    THEN [type |-> "url", consulted |-> FALSE]
    ELSE IF startsWith(source, sDATA)
    THEN [type |-> "base64", consulted |-> FALSE]
    ELSE IF isValidBase64(source)
    THEN [type |-> "base64", consulted |-> TRUE]
    ELSE IF isFilePath(source)
    THEN [type |-> "file", consulted |-> TRUE]
    ELSE [type |-> "file", consulted |-> TRUE]

\* detectSourceType letting fs.existsSync decide: a path-shaped reference
\* with no file behind it goes on to the base64 test
detectSourceTypeTrace_ExistsDecides(source, exists) ==
    IF startsWith(source, sHTTP) \/ startsWith(source, sHTTPS)
    THEN [type |-> "url", consulted |-> FALSE]
    ELSE IF startsWith(source, sDATA)
    THEN [type |-> "base64", consulted |-> FALSE]
    ELSE IF isFilePath(source) /\ exists
    THEN [type |-> "file", consulted |-> FALSE]
    ELSE IF isValidBase64(source)
    THEN [type |-> "base64", consulted |-> TRUE]
    ELSE [type |-> "file", consulted |-> TRUE]

\* detectSourceType with the rules it evaluated: type is the value returned,
\* consulted tells whether control reached the isValidBase64 call.
detectSourceTypeTrace(source, exists) ==
    IF startsWith(source, sHTTP) \/ startsWith(source, sHTTPS)
    THEN [type |-> "url", consulted |-> FALSE]
    ELSE IF startsWith(source, sDATA)
    THEN [type |-> "base64", consulted |-> FALSE]
    ELSE IF isFilePath(source)
    THEN (IF exists THEN [type |-> "file", consulted |-> FALSE]
                    ELSE [type |-> "file", consulted |-> FALSE])
    ELSE IF isValidBase64(source)
    THEN [type |-> "base64", consulted |-> TRUE]
    ELSE [type |-> "file", consulted |-> TRUE]

detectSourceType(source, exists) == detectSourceTypeTrace(source, exists).type

-----------------------------------------------------------------------------
(* Region & Scale Normalizer, Compressor, Response Assembler: image-utils.ts *)

\* denominator of region coordinates: the number v is kept as the integer v*Q
Q == 4 * 5

DEFAULT_MAX_WIDTH == 512
DEFAULT_MAX_HEIGHT == 512
LARGE_IMAGE_PIXELS == 300000

Min(a, b) == IF a <= b THEN a ELSE b
Max(a, b) == IF a >= b THEN a ELSE b

\* Math.round(n / d) for d > 0: nearest integer, halves towards +infinity
RoundDiv(n, d) == (2 * n + d) \div (2 * d)

\* Math.round of a coordinate value
Round(v) == RoundDiv(v, Q)

\* an optional number[] parameter
NoArray == [present |-> FALSE, v |-> <<>>]
Arr(v) == [present |-> TRUE, v |-> v]

\* isRatio with the upper bound exclusive (v < 1.0)
isRatio_Exclusive(values) ==
    \A i \in 1..Len(values) : values[i] >= 0 /\ values[i] < Q

\* isRatio(values): values.every(v => v >= 0 && v <= 1.0)
isRatio(values) == \A i \in 1..Len(values) : values[i] >= 0 /\ values[i] <= Q

\* focus_xyxy && focus_xyxy.length === 4
hasLen4(a) == a.present /\ Len(a.v) = 4

\* resolveFocus reading focus_xyxy as [x, y, width, height] and focal_point
\* extents as full widths
resolveFocus_Xywh(width, height, focus_xyxy, focal_point) ==
    IF hasLen4(focus_xyxy)
    THEN LET v == focus_xyxy.v
         IN  IF isRatio(v)
             THEN [left |-> RoundDiv(v[1] * width, Q), top |-> RoundDiv(v[2] * height, Q),
                   width |-> RoundDiv(v[3] * width, Q),
                   height |-> RoundDiv(v[4] * height, Q),
                   shouldCrop |-> TRUE, mode |-> "ratio", by |-> "focus_xyxy"]
             ELSE [left |-> Round(v[1]), top |-> Round(v[2]),
                   width |-> Round(v[3]), height |-> Round(v[4]),
                   shouldCrop |-> TRUE, mode |-> "pixel", by |-> "focus_xyxy"]
    ELSE IF hasLen4(focal_point)
    THEN LET v == focal_point.v
         IN  IF isRatio(v)
             THEN [left |-> RoundDiv(v[1] * width - v[3] * width, Q),
                   top |-> RoundDiv(v[2] * height - v[4] * height, Q),
                   width |-> RoundDiv(v[3] * width, Q),
                   height |-> RoundDiv(v[4] * height, Q),
                   shouldCrop |-> TRUE, mode |-> "ratio", by |-> "focal_point"]
             ELSE [left |-> Round(v[1] - v[3]), top |-> Round(v[2] - v[4]),
                   width |-> Round(v[3]), height |-> Round(v[4]),
                   shouldCrop |-> TRUE, mode |-> "pixel", by |-> "focal_point"]
    ELSE [left |-> 0, top |-> 0, width |-> width, height |-> height,
          shouldCrop |-> FALSE, mode |-> "none", by |-> "none"]

\* resolveFocus trying focal_point before focus_xyxy
resolveFocus_FocalFirst(width, height, focus_xyxy, focal_point) ==
    IF hasLen4(focal_point)
    THEN LET cx == focal_point.v[1]
             cy == focal_point.v[2]
             hw == focal_point.v[3]
             hh == focal_point.v[4]
         IN  IF isRatio(focal_point.v)
             THEN [left |-> RoundDiv(cx * width - hw * width, Q),
                   top |-> RoundDiv(cy * height - hh * height, Q),
                   width |-> RoundDiv(hw * width * 2, Q),
                   height |-> RoundDiv(hh * height * 2, Q),
                   shouldCrop |-> TRUE, mode |-> "ratio", by |-> "focal_point"]
             ELSE [left |-> Round(cx - hw),
                   top |-> Round(cy - hh),
                   width |-> Round(hw * 2),
                   height |-> Round(hh * 2),
                   shouldCrop |-> TRUE, mode |-> "pixel", by |-> "focal_point"]
    ELSE IF hasLen4(focus_xyxy)
    THEN LET x1 == focus_xyxy.v[1]
             y1 == focus_xyxy.v[2]
             x2 == focus_xyxy.v[3]
             y2 == focus_xyxy.v[4]
         IN  IF isRatio(focus_xyxy.v)
             THEN [left |-> RoundDiv(x1 * width, Q),
                   top |-> RoundDiv(y1 * height, Q),
                   width |-> RoundDiv((x2 - x1) * width, Q),
                   height |-> RoundDiv((y2 - y1) * height, Q),
                   shouldCrop |-> TRUE, mode |-> "ratio", by |-> "focus_xyxy"]
             ELSE [left |-> Round(x1),
                   top |-> Round(y1),
                   width |-> Round(x2 - x1),
                   height |-> Round(y2 - y1),
                   shouldCrop |-> TRUE, mode |-> "pixel", by |-> "focus_xyxy"]
    ELSE [left |-> 0, top |-> 0, width |-> width, height |-> height,
          shouldCrop |-> FALSE, mode |-> "none", by |-> "none"]

\* applyImageFocus, lines 156-189: the rectangle before clamping
resolveFocus(width, height, focus_xyxy, focal_point) ==
    IF hasLen4(focus_xyxy)
    THEN LET x1 == focus_xyxy.v[1]
             y1 == focus_xyxy.v[2]
             x2 == focus_xyxy.v[3]
             y2 == focus_xyxy.v[4]
         IN  IF isRatio(focus_xyxy.v)
             THEN [left |-> RoundDiv(x1 * width, Q),
                   top |-> RoundDiv(y1 * height, Q),
                   width |-> RoundDiv((x2 - x1) * width, Q),
                   height |-> RoundDiv((y2 - y1) * height, Q),
                   shouldCrop |-> TRUE, mode |-> "ratio", by |-> "focus_xyxy"]
             ELSE [left |-> Round(x1),
                   top |-> Round(y1),
                   width |-> Round(x2 - x1),
                   height |-> Round(y2 - y1),
                   shouldCrop |-> TRUE, mode |-> "pixel", by |-> "focus_xyxy"]
    ELSE IF hasLen4(focal_point)
    THEN LET cx == focal_point.v[1]
             cy == focal_point.v[2]
             hw == focal_point.v[3]
             hh == focal_point.v[4]
         IN  IF isRatio(focal_point.v)
             THEN [left |-> RoundDiv(cx * width - hw * width, Q),
                   top |-> RoundDiv(cy * height - hh * height, Q),
                   width |-> RoundDiv(hw * width * 2, Q),
                   height |-> RoundDiv(hh * height * 2, Q),
                   shouldCrop |-> TRUE, mode |-> "ratio", by |-> "focal_point"]
             ELSE [left |-> Round(cx - hw),
                   top |-> Round(cy - hh),
                   width |-> Round(hw * 2),
                   height |-> Round(hh * 2),
                   shouldCrop |-> TRUE, mode |-> "pixel", by |-> "focal_point"]
    ELSE [left |-> 0, top |-> 0, width |-> width, height |-> height,
          shouldCrop |-> FALSE, mode |-> "none", by |-> "none"]

\* clampFocus without Math.max(0, left) / Math.max(0, top)
clampFocus_NoOriginClamp(r, imgWidth, imgHeight) ==
    LET width == IF r.left + r.width > imgWidth THEN imgWidth - r.left ELSE r.width
        height == IF r.top + r.height > imgHeight THEN imgHeight - r.top ELSE r.height
    IN  [left |-> r.left, top |-> r.top, width |-> width, height |-> height]

\* clampFocus intersecting the rectangle with the image: what is cut off on
\* the left or at the top is taken off the width or height
clampFocus_Intersect(r, imgWidth, imgHeight) ==
    LET left == Max(0, r.left)
        top == Max(0, r.top)
        w == r.width - (left - r.left)
        h == r.height - (top - r.top)
        width == IF left + w > imgWidth THEN imgWidth - left ELSE w
        height == IF top + h > imgHeight THEN imgHeight - top ELSE h
    IN  [left |-> left, top |-> top, width |-> width, height |-> height]

\* applyImageFocus, lines 191-205: clamp the rectangle to the image
clampFocus(r, imgWidth, imgHeight) ==
    LET left == Max(0, r.left)
        top == Max(0, r.top)
        width == IF left + r.width > imgWidth THEN imgWidth - left ELSE r.width
        height == IF top + r.height > imgHeight THEN imgHeight - top ELSE r.height
    IN  [left |-> left, top |-> top, width |-> width, height |-> height]

NoRect == [left |-> 0, top |-> 0, width |-> 0, height |-> 0]

\* applyImageFocus: extract is TRUE when sharp.extract is called with rect
\* (the function then returns the cropped buffer); FALSE when it returns null.
applyImageFocus(width, height, focus_xyxy, focal_point) ==
    IF ~hasLen4(focus_xyxy) /\ ~hasLen4(focal_point)
    THEN [extract |-> FALSE, rect |-> NoRect, mode |-> "none", by |-> "none",
          resolved |-> NoRect]
    ELSE IF width = 0 \/ height = 0
    THEN [extract |-> FALSE, rect |-> NoRect, mode |-> "none", by |-> "none",
          resolved |-> NoRect]
    ELSE LET r == resolveFocus(width, height, focus_xyxy, focal_point)
             c == clampFocus(r, width, height)
             res == [left |-> r.left, top |-> r.top,
                     width |-> r.width, height |-> r.height]
         IN  IF r.shouldCrop /\ c.width > 0 /\ c.height > 0
             THEN [extract |-> TRUE, rect |-> c, mode |-> r.mode, by |-> r.by,
                   resolved |-> res]
             ELSE [extract |-> FALSE, rect |-> c, mode |-> r.mode, by |-> r.by,
                   resolved |-> res]

\* sharp(...).resize({width: tw, height: th, fit: 'inside',
\* withoutEnlargement: true}): the larger shrink factor is applied to both
\* axes, never a factor below 1, no dimension below 1 pixel.
sharpResizeInside(w, h, tw, th) ==
    IF w <= tw /\ h <= th
    THEN [width |-> w, height |-> h]
    ELSE IF w * th >= h * tw
    THEN [width |-> tw, height |-> Max(1, RoundDiv(h * tw, w))]
    ELSE [width |-> Max(1, RoundDiv(w * th, h)), height |-> th]

\* the resize step stretching every image to exactly the maxima
resizeStep_ForceMax(w, h, maxWidth, maxHeight) ==
    [resized |-> TRUE, dims |-> [width |-> maxWidth, height |-> maxHeight]]

\* the resize step with Math.max for Math.min in the targets
resizeStep_MaxTarget(w, h, maxWidth, maxHeight) ==
    IF w # 0 /\ h # 0
    THEN LET targetWidth == Max(w, maxWidth)
             targetHeight == Max(h, maxHeight)
         IN  IF w > targetWidth \/ h > targetHeight
             THEN [resized |-> TRUE,
                   dims |-> sharpResizeInside(w, h, targetWidth, targetHeight)]
             ELSE [resized |-> FALSE, dims |-> [width |-> w, height |-> h]]
    ELSE [resized |-> FALSE, dims |-> [width |-> w, height |-> h]]

\* processImageBuffer, lines 276-293: the dimensions after the resize step
\* and whether sharp.resize was called
resizeStep(w, h, maxWidth, maxHeight) ==
    IF w # 0 /\ h # 0
    THEN LET targetWidth == Min(w, maxWidth)
             targetHeight == Min(h, maxHeight)
         IN  IF w > targetWidth \/ h > targetHeight
             THEN [resized |-> TRUE,
                   dims |-> sharpResizeInside(w, h, targetWidth, targetHeight)]
             ELSE [resized |-> FALSE, dims |-> [width |-> w, height |-> h]]
    ELSE [resized |-> FALSE, dims |-> [width |-> w, height |-> h]]

\* String.prototype.toLowerCase on the letters the model uses
UpperSeq == <<"A","B","C","D","E","F","G","H","I","J","K","L","M",
              "N","O","P","Q","R","S","T","U","V","W","X","Y","Z">>
LowerSeq == <<"a","b","c","d","e","f","g","h","i","j","k","l","m",
              "n","o","p","q","r","s","t","u","v","w","x","y","z">>
lowerChar(c) ==
    IF c \in Upper
    THEN LowerSeq[CHOOSE i \in 1..26 : UpperSeq[i] = c]
    ELSE c
toLowerCase(s) == [i \in 1..Len(s) |-> lowerChar(s[i])]

sJPEG == <<"j","p","e","g">>
sJPG == <<"j","p","g">>
sPNG == <<"p","n","g">>
sWEBP == <<"w","e","b","p">>
sGIF == <<"g","i","f">>
sSVG == <<"s","v","g">>
sAVIF == <<"a","v","i","f">>
sTIFF == <<"t","i","f","f">>
sIMAGE_ == <<"i","m","a","g","e","/">>
sIMAGE_PNG == sIMAGE_ \o sPNG
sIMAGE_JPEG == sIMAGE_ \o sJPEG
sIMAGE_GIF == sIMAGE_ \o sGIF
sIMAGE_WEBP == sIMAGE_ \o sWEBP
sIMAGE_AVIF == sIMAGE_ \o sAVIF

\* sharp's toBuffer() without an explicit format keeps the input format,
\* except that SVG input is rasterised to PNG
sharpDefaultOutput(enc) == IF enc = sSVG THEN sPNG ELSE enc

\* A buffer is described by what sharp would find in it: decodable, its
\* dimensions and encoding; ops lists the sharp operations that produced it
\* from the request's payload (<<>> is the payload itself).
RawBuffer(decodable, w, h, enc) ==
    [ops |-> <<>>, decodable |-> decodable, width |-> w, height |-> h, enc |-> enc]

\* compressImage: the encoding of the returned buffer
compressTarget(formatStr, inputEnc) ==
    LET format == toLowerCase(formatStr)
    IN  IF format = sJPEG \/ format = sJPG THEN sJPEG
        ELSE IF format = sPNG THEN sPNG
        ELSE IF format = sWEBP THEN sWEBP
        ELSE IF format = sAVIF THEN sAVIF
        ELSE IF format = sTIFF THEN sTIFF
        ELSE IF format = sGIF \/ format = sSVG THEN sharpDefaultOutput(inputEnc)
        ELSE sJPEG

compressImage(buf, formatStr) ==
    [buf EXCEPT !.ops = Append(@, "compress"),
                !.enc = compressTarget(formatStr, buf.enc)]

\* the text of an error result: a template and the values interpolated in it
Msg(template, args) == [template |-> template, args |-> args]

ErrorResponse(msg) ==
    [isError |-> TRUE, content |-> <<[type |-> "text", text |-> msg]>>]

NoExtra == [has |-> FALSE, page |-> 0, totalPages |-> 0, dpi |-> 0]
PdfExtra(page, totalPages, dpi) ==
    [has |-> TRUE, page |-> page, totalPages |-> totalPages, dpi |-> dpi]

Return(response, trace) == [kind |-> "return", response |-> response, trace |-> trace]
Throw(error, trace) == [kind |-> "throw", error |-> error, trace |-> trace]

\* what processImageBuffer did, step by step
PibTrace(calls, focus, entering, resized) ==
    [calls |-> calls, focus |-> focus, entering |-> entering, resized |-> resized]

NoFocus ==
    [extract |-> FALSE, rect |-> NoRect, mode |-> "none", by |-> "none",
     resolved |-> NoRect]
NoDims == [width |-> 0, height |-> 0]

\* The three sharp operations that can reject inside processImageBuffer
SharpOutcomes == [extract : BOOLEAN, resize : BOOLEAN, compress : BOOLEAN]

\* the buffer sharp.extract returns for the rectangle of focus
extractBuffer(buf0, focus) ==
    [ops |-> <<"extract">>, decodable |-> TRUE,
     width |-> focus.rect.width, height |-> focus.rect.height,
     enc |-> sharpDefaultOutput(buf0.enc)]

\* the buffer sharp.resize returns
resizeBuffer(buf1, dims) ==
    [ops |-> Append(buf1.ops, "resize"), decodable |-> TRUE,
     width |-> dims.width, height |-> dims.height,
     enc |-> sharpDefaultOutput(buf1.enc)]

\* pibAssemble with hasFocus standing for "a rectangle was extracted"
pibAssemble_InfoWhenNoCrop(params, buf0, buf2, buf3, trace) ==
    Return([isError |-> FALSE,
            content |->
              <<[type |-> "text",
                 text |-> [width |-> buf2.width,
                           height |-> buf2.height,
                           format |-> buf2.enc,
                           size |-> [lengthOf |-> buf3],
                           extra |-> params.extraMetadata,
                           info |-> (buf0.width * buf0.height > LARGE_IMAGE_PIXELS
                                     /\ ~trace.focus.extract)]],
                [type |-> "image",
                 data |-> [base64Of |-> buf3],
                 mimeType |-> params.mimeType]>>],
           trace)

\* processImageBuffer, lines 302-324: metadata, base64 and the response.
\* buf0 is the buffer received, buf2 the one after crop and resize (whose
\* metadata is reported), buf3 the one returned.
pibAssemble(params, buf0, buf2, buf3, trace) ==
    LET hasFocus == params.focus_xyxy.present \/ params.focal_point.present
        originalPixels == buf0.width * buf0.height
    IN  Return([isError |-> FALSE,
                content |->
                  <<[type |-> "text",
                     text |-> [width |-> buf2.width,
                               height |-> buf2.height,
                               format |-> buf2.enc,
                               size |-> [lengthOf |-> buf3],
                               extra |-> params.extraMetadata,
                               info |-> (originalPixels > LARGE_IMAGE_PIXELS
                                         /\ ~hasFocus)]],
                    [type |-> "image",
                     data |-> [base64Of |-> buf3],
                     mimeType |-> params.mimeType]>>],
               trace)

\* pibCompress with a catch block that warns and throws the error again
pibCompress_Rethrow(params, buf0, buf2, oc, trace) ==
    IF oc.compress
    THEN pibAssemble(params, buf0, buf2, compressImage(buf2, params.format),
                     [trace EXCEPT !.calls = Append(@, "compress")])
    ELSE Throw(Msg("sharp: compression failed", <<>>),
               [trace EXCEPT !.calls = @ \o <<"compress", "console.warn">>])

\* processImageBuffer, lines 295-300: compression, with its failure caught
\* and reported by console.warn
pibCompress(params, buf0, buf2, oc, trace) ==
    IF oc.compress
    THEN pibAssemble(params, buf0, buf2, compressImage(buf2, params.format),
                     [trace EXCEPT !.calls = Append(@, "compress")])
    ELSE pibAssemble(params, buf0, buf2, buf2,
                     [trace EXCEPT !.calls = @ \o <<"compress", "console.warn">>])

\* processImageBuffer, lines 276-293: resize of buf1, the buffer after the
\* optional crop
pibResize(params, maxWidth, maxHeight, oc, buf0, buf1, focus, calls1) ==
    LET rs == resizeStep(buf1.width, buf1.height, maxWidth, maxHeight)
        entering == [width |-> buf1.width, height |-> buf1.height]
    IN  IF rs.resized
        THEN IF oc.resize
             THEN pibCompress(params, buf0, resizeBuffer(buf1, rs.dims), oc,
                              PibTrace(Append(calls1, "resize"), focus, entering, TRUE))
             ELSE Throw(Msg("sharp: resize failed", <<>>),
                        PibTrace(Append(calls1, "resize"), focus, entering, TRUE))
        ELSE pibCompress(params, buf0, buf1, oc,
                         PibTrace(calls1, focus, entering, FALSE))

\* pibFocus resizing the received buffer first and resolving the region
\* against the resized image
pibFocus_ResizeFirst(params, maxWidth, maxHeight, oc, buf0, focus) ==
    pibCompress(
        params, buf0,
        IF applyImageFocus(
               resizeStep(buf0.width, buf0.height, maxWidth, maxHeight).dims.width,
               resizeStep(buf0.width, buf0.height, maxWidth, maxHeight).dims.height,
               params.focus_xyxy, params.focal_point).extract
        THEN extractBuffer(
                 buf0,
                 applyImageFocus(
                     resizeStep(buf0.width, buf0.height, maxWidth,
                                maxHeight).dims.width,
                     resizeStep(buf0.width, buf0.height, maxWidth,
                                maxHeight).dims.height,
                     params.focus_xyxy, params.focal_point))
        ELSE resizeBuffer(buf0, resizeStep(buf0.width, buf0.height, maxWidth,
                                           maxHeight).dims),
        oc,
        PibTrace(<<"metadata", "resize", "extract">>,
                 applyImageFocus(
                     resizeStep(buf0.width, buf0.height, maxWidth,
                                maxHeight).dims.width,
                     resizeStep(buf0.width, buf0.height, maxWidth,
                                maxHeight).dims.height,
                     params.focus_xyxy, params.focal_point),
                 [width |-> buf0.width, height |-> buf0.height],
                 resizeStep(buf0.width, buf0.height, maxWidth, maxHeight).resized))

\* processImageBuffer, lines 269-274: the optional crop
pibFocus(params, maxWidth, maxHeight, oc, buf0, focus) ==
    IF focus.extract
    THEN IF oc.extract
         THEN pibResize(params, maxWidth, maxHeight, oc, buf0,
                        extractBuffer(buf0, focus), focus, <<"metadata", "extract">>)
         ELSE Throw(Msg("sharp: extract_area: bad extract area", <<>>),
                    PibTrace(<<"metadata", "extract">>, focus, NoDims, FALSE))
    ELSE pibResize(params, maxWidth, maxHeight, oc, buf0, buf0, focus,
                   <<"metadata">>)

\* processImageBuffer(params): oc tells which sharp operations succeed,
\* maxWidth/maxHeight are DEFAULT_MAX_WIDTH/HEIGHT as read from the environment.
processImageBuffer(params, maxWidth, maxHeight, oc) ==
    IF ~params.imageBuffer.decodable
    THEN Throw(Msg("sharp: unsupported image format", <<>>),
               PibTrace(<<"metadata">>, NoFocus, NoDims, FALSE))
    ELSE pibFocus(params, maxWidth, maxHeight, oc, params.imageBuffer,
                  applyImageFocus(params.imageBuffer.width, params.imageBuffer.height,
                                  params.focus_xyxy, params.focal_point))

-----------------------------------------------------------------------------
(* Content-type classification, inline-data decoding, URL validation:       *)
(* helpers of read-visual.ts, pdf-utils.ts and image-utils.ts               *)

MAX_IMAGE_SIZE == 52428800
PDF_DPI == 150

sDOT_PDF == <<".","p","d","f">>
sDOT_PNG == <<".","p","n","g">>
sDOT_JPG == <<".","j","p","g">>
sDOT_JPEG == <<".","j","p","e","g">>
sDOT_GIF == <<".","g","i","f">>
sDOT_WEBP == <<".","w","e","b","p">>
sDOT_SVG == <<".","s","v","g">>
sDOT_AVIF == <<".","a","v","i","f">>
sPDF == <<"p","d","f">>
sAPPLICATION_PDF == <<"a","p","p","l","i","c","a","t","i","o","n","/">> \o sPDF
sBASE64_MARK == <<";","b","a","s","e","6","4",",">>
LineTerminators == {"\n", "\r"}

\* String.prototype.includes, for a substring
includesSeq(s, p) ==
    \E i \in 0..(Len(s) - Len(p)) : \A j \in 1..Len(p) : s[i + j] = p[j]

\* String.prototype.indexOf for one character, 1-based; 0 when absent
indexOf(s, c) ==
    IF \E i \in 1..Len(s) : s[i] = c
    THEN CHOOSE i \in 1..Len(s) : s[i] = c /\ \A j \in 1..(i - 1) : s[j] # c
    ELSE 0

\* String.prototype.lastIndexOf for one character, 1-based; 0 when absent
lastIndexOf(s, c) ==
    IF \E i \in 1..Len(s) : s[i] = c
    THEN CHOOSE i \in 1..Len(s) : s[i] = c /\ \A j \in (i + 1)..Len(s) : s[j] # c
    ELSE 0

\* path.extname (POSIX): from the last '.' of the last path segment, '' when
\* there is none or when it is the segment's first character
extname(p) ==
    LET base == SubSeq(p, lastIndexOf(p, "/") + 1, Len(p))
        dot == lastIndexOf(base, ".")
    IN  IF dot <= 1 THEN <<>> ELSE SubSeq(base, dot, Len(base))

\* a payload of bytes: its length, whether its first five bytes are '%PDF-',
\* and what the image decoder makes of it
Payload(length, pdfMagic, image) ==
    [length |-> length, pdfMagic |-> pdfMagic, image |-> image]

Undecodable == RawBuffer(FALSE, 0, 0, <<>>)
NoPayload == Payload(0, FALSE, Undecodable)

isPdf(buffer) == buffer.length >= 5 /\ buffer.pdfMagic

isPdfByExtension(filePath) == toLowerCase(extname(filePath)) = sDOT_PDF

isPdfByMimeType(mimeType) ==
    mimeType = sAPPLICATION_PDF \/ includesSeq(mimeType, sPDF)

\* parseDataUrl taking whatever follows the first comma as the payload
parseDataUrl_AnyComma(dataUrl) ==
    LET comma == indexOf(dataUrl, ",")
    IN  IF startsWith(dataUrl, sDATA) /\ comma > 0
        THEN [matched |-> TRUE,
              mimeType |-> SubSeq(dataUrl, Len(sDATA) + 1, comma - 1),
              base64 |-> SubSeq(dataUrl, comma + 1, Len(dataUrl))]
        ELSE [matched |-> FALSE, mimeType |-> <<>>, base64 |-> <<>>]

\* dataUrl.match(/^data:([^;]+);base64,(.+)$/)
parseDataUrl(dataUrl) ==
    LET semi == indexOf(dataUrl, ";")
        rest == SubSeq(dataUrl, semi + Len(sBASE64_MARK), Len(dataUrl))
    IN  IF /\ startsWith(dataUrl, sDATA)
           /\ semi > Len(sDATA) + 1
           /\ startsWith(SubSeq(dataUrl, semi, Len(dataUrl)), sBASE64_MARK)
           /\ Len(rest) >= 1
           /\ \A i \in 1..Len(rest) : rest[i] \notin LineTerminators
        THEN [matched |-> TRUE,
              mimeType |-> SubSeq(dataUrl, Len(sDATA) + 1, semi - 1),
              base64 |-> rest]
        ELSE [matched |-> FALSE, mimeType |-> <<>>, base64 |-> <<>>]

\* mimeType.split('/')[1] || 'jpeg'
mimeSubtypeOrJpeg(mimeType) ==
    LET slash == indexOf(mimeType, "/")
        tail == SubSeq(mimeType, slash + 1, Len(mimeType))
        next == indexOf(tail, "/")
        part == IF next = 0 THEN tail ELSE SubSeq(tail, 1, next - 1)
    IN  IF slash = 0 \/ part = <<>> THEN sJPEG ELSE part

\* pdf-utils.ts cleanBase64
cleanBase64(base64) == stripWhitespace(base64)

\* pdf-utils.ts isValidBase64 (no minimum length)
pdfIsValidBase64(base64) ==
    LET b64 == cleanBase64(base64)
    IN  IF Len(b64) = 0 THEN FALSE
        ELSE IF Len(b64) % 4 # 0 THEN FALSE
        ELSE matchesBase64Regex(b64)

\* Buffer.from(str, 'base64'): characters outside the alphabet are skipped,
\* the url-safe '-' and '_' are accepted, the first '=' ends the input
Base64Legal(c) == c \in B64Chars \cup {"-", "_"}

base64Digits(str) ==
    LET pad == indexOf(str, "=")
    IN  SelectSeq(IF pad = 0 THEN str ELSE SubSeq(str, 1, pad - 1), Base64Legal)

base64DecodedLength(str) == (Len(base64Digits(str)) * 3) \div 4

\* the decoded bytes begin with '%PDF-': the digits begin with JVBERi and a
\* seventh digit whose upper four bits are those of '-'
sJVBERi == <<"J","V","B","E","R","i">>
base64DecodesToPdf(str) ==
    LET d == base64Digits(str)
    IN  /\ Len(d) >= 7
        /\ SubSeq(d, 1, 6) = sJVBERi
        /\ d[7] \in {"0", "1", "2", "3"}

\* Buffer.from(str, 'base64'), decoded being the image the bytes hold
base64Decode(str, decoded) ==
    Payload(base64DecodedLength(str), base64DecodesToPdf(str),
            IF base64DecodesToPdf(str) \/ base64DecodedLength(str) = 0
            THEN Undecodable ELSE decoded)

\* getMimeAndFormat(fileExt)
getMimeAndFormat(fileExt) ==
    IF fileExt = sDOT_PNG THEN [mimeType |-> sIMAGE_PNG, format |-> sPNG]
    ELSE IF fileExt = sDOT_JPG \/ fileExt = sDOT_JPEG
    THEN [mimeType |-> sIMAGE_JPEG, format |-> sJPEG]
    ELSE IF fileExt = sDOT_GIF THEN [mimeType |-> sIMAGE_GIF, format |-> sGIF]
    ELSE IF fileExt = sDOT_WEBP THEN [mimeType |-> sIMAGE_WEBP, format |-> sWEBP]
    ELSE IF fileExt = sDOT_SVG THEN [mimeType |-> sIMAGE_PNG, format |-> sPNG]
    ELSE IF fileExt = sDOT_AVIF THEN [mimeType |-> sIMAGE_AVIF, format |-> sAVIF]
    ELSE [mimeType |-> sIMAGE_JPEG, format |-> sJPEG]

\* the index of the first character of s that is in chars, Len(s) + 1 if none
firstIn(s, chars) ==
    IF \E i \in 1..Len(s) : s[i] \in chars
    THEN CHOOSE i \in 1..Len(s) :
            /\ s[i] \in chars
            /\ \A j \in 1..(i - 1) : s[j] \notin chars
    ELSE Len(s) + 1

\* new URL(url) for an http(s) URL: the authority ends at the first '/', '?'
\* or '#'; the host follows the user info, if any, and precedes the port
HostEnd == {"/", "?", "#"}
urlAuthority(url) ==
    LET after == SubSeq(url, indexOf(url, ":") + 3, Len(url))
    IN  SubSeq(after, 1, firstIn(after, HostEnd) - 1)

urlHostPort(authority) ==
    SubSeq(authority, lastIndexOf(authority, "@") + 1, Len(authority))

\* new URL(url).hostname, lower-cased by the parser; a URL without a host is
\* rejected by the constructor
urlHostname(url) ==
    toLowerCase(SubSeq(urlHostPort(urlAuthority(url)), 1,
                       firstIn(urlHostPort(urlAuthority(url)), {":"}) - 1))

\* validateDomain accepting any host that ends with an entry (no '.' before it)
validateDomain_AnySuffix(url, allowedDomains) ==
    IF Len(allowedDomains) = 0 THEN [kind |-> "null"]
    ELSE IF urlHostname(url) = <<>>
    THEN [kind |-> "throw", error |-> Msg("Invalid URL", <<>>)]
    ELSE IF \E k \in 1..Len(allowedDomains) :
               \/ urlHostname(url) = allowedDomains[k]
               \/ endsWith(urlHostname(url), allowedDomains[k])
    THEN [kind |-> "null"]
    ELSE [kind |-> "error",
          text |-> Msg("Error: Domain {domain} is not in the allowed domains list",
                       <<urlHostname(url)>>)]

\* validateDomain(url) against ALLOWED_DOMAINS
validateDomain(url, allowedDomains) ==
    IF Len(allowedDomains) = 0 THEN [kind |-> "null"]
    ELSE IF urlHostname(url) = <<>>
    THEN [kind |-> "throw", error |-> Msg("Invalid URL", <<>>)]
    ELSE IF \E k \in 1..Len(allowedDomains) :
               \/ urlHostname(url) = allowedDomains[k]
               \/ endsWith(urlHostname(url), <<".">> \o allowedDomains[k])
    THEN [kind |-> "null"]
    ELSE [kind |-> "error",
          text |-> Msg("Error: Domain {domain} is not in the allowed domains list",
                       <<urlHostname(url)>>)]

-----------------------------------------------------------------------------
(* The seven public entry points, cut at their collaborator calls           *)

Absent == [present |-> FALSE, value |-> 0]
Given(v) == [present |-> TRUE, value |-> v]

\* resize, max_width and max_height hold the defaults of the tool schemas
Request(entryPoint, source, page, dpi, focus_xyxy, focal_point, mime_type) ==
    [entry |-> entryPoint, source |-> source, page |-> page, dpi |-> dpi,
     focus_xyxy |-> focus_xyxy, focal_point |-> focal_point,
     mime_type |-> mime_type,
     resize |-> TRUE, max_width |-> 512, max_height |-> 512]

\* the same request with other values for the three sizing parameters
withSizing(request, resize, max_width, max_height) ==
    [request EXCEPT !.resize = resize, !.max_width = max_width,
                    !.max_height = max_height]

NoRequest == Request("none", <<>>, Absent, Absent, NoArray, NoArray, Absent)

NoResponse == [isError |-> FALSE, content |-> <<>>]
NoPib == PibTrace(<<>>, NoFocus, NoDims, FALSE)
NoError == Msg("", <<>>)

\* the locals of the request in progress
NoLocals ==
    [exists |-> "unasked", payload |-> NoPayload, contentType |-> <<>>,
     pdfInput |-> "none", page |-> 0, dpi |-> 0, pageCount |-> 0,
     imageBuffer |-> Undecodable, format |-> <<>>, mimeType |-> <<>>,
     extraMetadata |-> NoExtra, pib |-> NoPib, error |-> NoError,
     opened |-> [ok |-> FALSE,
                 length |-> [isNumber |-> FALSE, isNaN |-> FALSE, value |-> 0]]]

\* the texts of the error responses
FileNotFoundText(path) == Msg("Error: File {file_path} does not exist", <<path>>)
SizeExceededText(what, max) ==
    Msg("Error: {what} size exceeds maximum allowed size of {MAX_IMAGE_SIZE} bytes",
        <<what, max>>)
BadSchemeText == Msg("Error: URL must start with http:// or https://", <<>>)
InvalidBase64Text == Msg("Error: Invalid base64 string", <<>>)
EmptyBufferText ==
    Msg("Error: Invalid base64 string - decoded to empty buffer", <<>>)
EmptyBufferError == Msg("Invalid base64 string - decoded to empty buffer", <<>>)
InvalidBase64WithText(e) == Msg("Error: Invalid base64 string - {message}", <<e>>)
CouldNotProcessText(e) ==
    Msg("Error: Could not process image data - {message}", <<e>>)
InvalidDataUrlText == Msg("Error: Invalid data URL format", <<>>)
CaughtText(e) == Msg("Error: {message}", <<e>>)

\* the errors thrown by renderPdfPage / renderPdfPageFromInput
PageCountError == Msg("Failed to determine PDF page count", <<>>)
OutOfRangeError(pageNum, pageCount) ==
    Msg("Page {pageNum} is out of range. Document has {pageCount} page(s).",
        <<pageNum, pageCount>>)

\* the errors of the collaborators
SharpInputError == Msg("sharp: Input buffer contains unsupported image format", <<>>)
ReadFileError == Msg("fs: readFileSync failed", <<>>)
AxiosError == Msg("axios: request failed", <<>>)
AxiosTooLargeError(max) ==
    Msg("axios: maxContentLength size of {max} exceeded", <<max>>)
ImportError == Msg("import: cannot load pdf-to-img", <<>>)
PdfOpenError == Msg("pdf-to-img: cannot open document", <<>>)
GetPageError == Msg("pdf-to-img: cannot render page", <<>>)

\* where a step leaves the request
Goto(label, l) == [pc |-> label, loc |-> l, response |-> NoResponse]
Respond(r, l) == [pc |-> "done", loc |-> l, response |-> r]
RespondError(text, l) == Respond(ErrorResponse(text), l)

\* a catch block that lets the error through to the caller
catchBlock_Rethrow(error, l) ==
    [pc |-> "rejected", loc |-> [l EXCEPT !.error = error],
     response |-> NoResponse]

\* the catch block that closes every entry point
catchBlock(error, l) ==
    RespondError(CaughtText(error), [l EXCEPT !.error = error])

\* the label at which an entry point starts
entryLabel(entryPoint) ==
    IF entryPoint = "readVisual" THEN "detectSourceType"
    ELSE IF entryPoint \in {"extractImageFromFile", "extractPdfFromFile"}
    THEN "existsSync"
    ELSE IF entryPoint \in {"extractImageFromUrl", "extractPdfFromUrl"}
    THEN "validateUrl"
    ELSE "decodeBase64"

\* readVisual: the switch on detectSourceType(source)
dispatch(request, exists, l) ==
    IF detectSourceType(request.source, exists) = "file" THEN Goto("existsSync", l)
    ELSE IF detectSourceType(request.source, exists) = "url"
    THEN Goto("validateUrl", l)
    ELSE Goto("decodeBase64", l)

\* processPdf / the extractPdf* entry points: the page and dpi handed to the
\* renderer, input being the file path or a data URL of the bytes
toPdf(request, input, l) ==
    Goto("getPdfToImg",
         [l EXCEPT !.pdfInput = input,
                   !.page = IF request.entry = "readVisual" /\ ~request.page.present
                            THEN 1 ELSE request.page.value,
                   !.dpi = IF request.entry = "readVisual" /\ request.dpi.present
                           THEN request.dpi.value ELSE PDF_DPI])

\* processImage / the extractImage* entry points: the call of processImageBuffer
toImage(imageBuffer, format, mimeType, l) ==
    Goto("processImageBuffer",
         [l EXCEPT !.imageBuffer = imageBuffer, !.format = format,
                   !.mimeType = mimeType, !.extraMetadata = NoExtra])

\* the word each entry point uses for an oversized payload read from a file
fileSizeWord(entryPoint) ==
    IF entryPoint = "extractImageFromFile" THEN "Image"
    ELSE IF entryPoint = "extractPdfFromFile" THEN "PDF"
    ELSE "File"

\* existsSyncStep going on to the read whatever fs.existsSync answered
existsSyncStep_NoCheck(request, exists, l) == Goto("readFileSync", l)

\* fs.existsSync(path) answered exists
existsSyncStep(request, exists, l) ==
    IF ~exists THEN RespondError(FileNotFoundText(request.source), l)
    ELSE Goto("readFileSync", l)

\* readFileSyncStep comparing the size with >= instead of >
readFileSyncStep_AtLeast(request, read, maxSize, l) ==
    IF ~read.ok THEN catchBlock(ReadFileError, l)
    ELSE IF read.payload.length >= maxSize
    THEN RespondError(SizeExceededText(fileSizeWord(request.entry), maxSize), l)
    ELSE IF request.entry = "extractPdfFromFile" THEN toPdf(request, "path", l)
    ELSE IF request.entry = "extractImageFromFile"
    THEN toImage(read.payload.image,
                 getMimeAndFormat(toLowerCase(extname(request.source))).format,
                 getMimeAndFormat(toLowerCase(extname(request.source))).mimeType, l)
    ELSE IF isPdfByExtension(request.source) \/ isPdf(read.payload)
    THEN toPdf(request, "path", l)
    ELSE toImage(read.payload.image,
                 getMimeAndFormat(toLowerCase(extname(request.source))).format,
                 getMimeAndFormat(toLowerCase(extname(request.source))).mimeType, l)

\* readFileSyncStep with extractImageFromFile classifying like handleFile
readFileSyncStep_ClassifyAll(request, read, maxSize, l) ==
    IF ~read.ok THEN catchBlock(ReadFileError, l)
    ELSE IF read.payload.length > maxSize
    THEN RespondError(SizeExceededText(fileSizeWord(request.entry), maxSize), l)
    ELSE IF request.entry = "extractPdfFromFile" THEN toPdf(request, "path", l)
    ELSE IF isPdfByExtension(request.source) \/ isPdf(read.payload)
    THEN toPdf(request, "path", l)
    ELSE toImage(read.payload.image,
                 getMimeAndFormat(toLowerCase(extname(request.source))).format,
                 getMimeAndFormat(toLowerCase(extname(request.source))).mimeType, l)

\* fs.readFileSync(path) answered read = [ok, payload], then the size check
\* and what follows it up to the next collaborator call
readFileSyncStep(request, read, maxSize, l) ==
    IF ~read.ok THEN catchBlock(ReadFileError, l)
    ELSE IF read.payload.length > maxSize
    THEN RespondError(SizeExceededText(fileSizeWord(request.entry), maxSize), l)
    ELSE IF request.entry = "extractPdfFromFile" THEN toPdf(request, "path", l)
    ELSE IF request.entry = "extractImageFromFile"
    THEN toImage(read.payload.image,
                 getMimeAndFormat(toLowerCase(extname(request.source))).format,
                 getMimeAndFormat(toLowerCase(extname(request.source))).mimeType, l)
    ELSE IF isPdfByExtension(request.source) \/ isPdf(read.payload)
    THEN toPdf(request, "path", l)
    ELSE toImage(read.payload.image,
                 getMimeAndFormat(toLowerCase(extname(request.source))).format,
                 getMimeAndFormat(toLowerCase(extname(request.source))).mimeType, l)

\* the scheme test of extractImageFromUrl / extractPdfFromUrl, then
\* validateDomain
validateUrlStep(request, allowedDomains, l) ==
    IF /\ request.entry # "readVisual"
       /\ ~startsWith(request.source, sHTTP)
       /\ ~startsWith(request.source, sHTTPS)
    THEN RespondError(BadSchemeText, l)
    ELSE IF validateDomain(request.source, allowedDomains).kind = "throw"
    THEN catchBlock(validateDomain(request.source, allowedDomains).error, l)
    ELSE IF validateDomain(request.source, allowedDomains).kind = "error"
    THEN RespondError(validateDomain(request.source, allowedDomains).text, l)
    ELSE Goto("axiosGet", l)

\* response.headers['content-type'] || fallback
orElse(str, fallback) == IF str = <<>> THEN fallback ELSE str

\* axiosGetStep of a handleUrl that does not look at the end of the URL
axiosGetStep_NoSuffix(request, got, maxSize, l) ==
    IF ~got.ok THEN catchBlock(AxiosError, l)
    ELSE IF got.payload.length > maxSize
    THEN catchBlock(AxiosTooLargeError(maxSize), l)
    ELSE IF request.entry = "extractImageFromUrl"
    THEN IF ~got.payload.image.decodable THEN catchBlock(SharpInputError, l)
         ELSE toImage(got.payload.image, got.payload.image.enc,
                      orElse(got.contentType, sIMAGE_JPEG), l)
    ELSE IF request.entry = "extractPdfFromUrl"
    THEN toPdf(request, "dataUrl", l)
    ELSE IF isPdfByMimeType(got.contentType) \/ isPdf(got.payload)
    THEN toPdf(request, "dataUrl", l)
    ELSE IF ~got.payload.image.decodable THEN catchBlock(SharpInputError, l)
    ELSE toImage(got.payload.image, got.payload.image.enc,
                 orElse(got.contentType, sIMAGE_JPEG), l)

\* axios.get answered got = [ok, payload, contentType]; maxContentLength makes
\* axios reject a larger body
axiosGetStep(request, got, maxSize, l) ==
    IF ~got.ok THEN catchBlock(AxiosError, l)
    ELSE IF got.payload.length > maxSize
    THEN catchBlock(AxiosTooLargeError(maxSize), l)
    ELSE IF request.entry = "extractImageFromUrl"
    THEN IF ~got.payload.image.decodable THEN catchBlock(SharpInputError, l)
         ELSE toImage(got.payload.image, got.payload.image.enc,
                      orElse(got.contentType, sIMAGE_JPEG), l)
    ELSE IF request.entry = "extractPdfFromUrl"
    THEN toPdf(request, "dataUrl", l)
    ELSE IF \/ isPdfByMimeType(got.contentType)
            \/ endsWith(toLowerCase(request.source), sDOT_PDF)
            \/ isPdf(got.payload)
    THEN toPdf(request, "dataUrl", l)
    ELSE IF ~got.payload.image.decodable THEN catchBlock(SharpInputError, l)
    ELSE toImage(got.payload.image, got.payload.image.enc,
                 orElse(got.contentType, sIMAGE_JPEG), l)

\* the locals once Buffer.from(..., 'base64') has returned buffer
withPayload(l, buffer) == [l EXCEPT !.payload = buffer]

\* extractImageFromBase64, up to the call of processImageBuffer
extractImageFromBase64Step(request, buffer, maxSize, l) ==
    IF buffer.length = 0
    THEN RespondError(InvalidBase64WithText(EmptyBufferError),
                      withPayload(l, buffer))
    ELSE IF buffer.length > maxSize
    THEN RespondError(SizeExceededText("Image", maxSize), withPayload(l, buffer))
    ELSE IF ~buffer.image.decodable
    THEN RespondError(CouldNotProcessText(SharpInputError), withPayload(l, buffer))
    ELSE toImage(buffer.image, buffer.image.enc, request.mime_type.value,
                 withPayload(l, buffer))

\* extractPdfFromBase64Step without the isValidBase64 test
extractPdfFromBase64Step_NoValidation(request, buffer, maxSize, l) ==
    IF buffer.length = 0
    THEN RespondError(EmptyBufferText, withPayload(l, buffer))
    ELSE IF buffer.length > maxSize
    THEN RespondError(SizeExceededText("PDF", maxSize), withPayload(l, buffer))
    ELSE toPdf(request, "dataUrl", withPayload(l, buffer))

\* extractPdfFromBase64, up to the call of renderPdfPageFromInput
extractPdfFromBase64Step(request, buffer, maxSize, l) ==
    IF ~pdfIsValidBase64(request.source) THEN RespondError(InvalidBase64Text, l)
    ELSE IF buffer.length = 0
    THEN RespondError(EmptyBufferText, withPayload(l, buffer))
    ELSE IF buffer.length > maxSize
    THEN RespondError(SizeExceededText("PDF", maxSize), withPayload(l, buffer))
    ELSE toPdf(request, "dataUrl", withPayload(l, buffer))

\* handleBase64 from the validation of base64Data on
handleBase64Checked(request, base64Data, mimeType, buffer, maxSize, l) ==
    IF ~isValidBase64(base64Data) THEN RespondError(InvalidBase64Text, l)
    ELSE IF buffer.length = 0
    THEN RespondError(EmptyBufferText, withPayload(l, buffer))
    ELSE IF buffer.length > maxSize
    THEN RespondError(SizeExceededText("Content", maxSize), withPayload(l, buffer))
    ELSE IF isPdfByMimeType(mimeType) \/ isPdf(buffer)
    THEN toPdf(request, "dataUrl", withPayload(l, buffer))
    ELSE toImage(buffer.image,
                 IF buffer.image.decodable THEN buffer.image.enc
                 ELSE mimeSubtypeOrJpeg(mimeType),
                 mimeType, withPayload(l, buffer))

\* handleBase64: the base64 text that is validated and decoded
handleBase64Data(source) ==
    IF startsWith(source, sDATA) THEN parseDataUrl(source).base64
    ELSE stripWhitespace(source)

\* the base64 text each entry point hands to Buffer.from
base64Input(request) ==
    IF request.entry = "readVisual" THEN handleBase64Data(request.source)
    ELSE IF request.entry = "extractPdfFromBase64" THEN cleanBase64(request.source)
    ELSE request.source

\* handleBase64: data URL or raw base64
handleBase64Step(request, buffer, maxSize, l) ==
    IF startsWith(request.source, sDATA)
    THEN IF ~parseDataUrl(request.source).matched
         THEN RespondError(InvalidDataUrlText, l)
         ELSE handleBase64Checked(request, parseDataUrl(request.source).base64,
                                  parseDataUrl(request.source).mimeType,
                                  buffer, maxSize, l)
    ELSE handleBase64Checked(request, stripWhitespace(request.source),
                             IF request.mime_type.present
                                /\ request.mime_type.value # <<>>
                             THEN request.mime_type.value ELSE sIMAGE_PNG,
                             buffer, maxSize, l)

\* the inline-data branch of the three entry points, decoded being the image
\* held by the bytes the text decodes to
decodeBase64Step(request, decoded, maxSize, l) ==
    IF request.entry = "extractImageFromBase64"
    THEN extractImageFromBase64Step(
             request, base64Decode(base64Input(request), decoded), maxSize, l)
    ELSE IF request.entry = "extractPdfFromBase64"
    THEN extractPdfFromBase64Step(
             request, base64Decode(base64Input(request), decoded), maxSize, l)
    ELSE handleBase64Step(
             request, base64Decode(base64Input(request), decoded), maxSize, l)

\* doc.length as the renderer reports it
DocLength(isNumber, isNaN, value) ==
    [isNumber |-> isNumber, isNaN |-> isNaN, value |-> value]

\* pdfOpenStep without the upper page bound (pageNum > pageCount dropped)
pdfOpenStep_NoUpperBound(opened, l) ==
    IF ~opened.ok THEN catchBlock(PdfOpenError, l)
    ELSE IF ~opened.length.isNumber \/ opened.length.isNaN
            \/ opened.length.value = 0
    THEN catchBlock(PageCountError, l)
    ELSE IF l.page < 1
    THEN catchBlock(OutOfRangeError(l.page, opened.length.value),
                    [l EXCEPT !.pageCount = opened.length.value])
    ELSE Goto("getPage", [l EXCEPT !.pageCount = opened.length.value])

\* pdfOpenStep validating the page bounds before the page count
pdfOpenStep_BoundsFirst(opened, l) ==
    IF ~opened.ok THEN catchBlock(PdfOpenError, l)
    ELSE IF ~opened.length.isNumber \/ opened.length.isNaN
    THEN catchBlock(PageCountError, l)
    ELSE IF l.page < 1 \/ l.page > opened.length.value
    THEN catchBlock(OutOfRangeError(l.page, opened.length.value),
                    [l EXCEPT !.pageCount = opened.length.value])
    ELSE IF opened.length.value = 0 THEN catchBlock(PageCountError, l)
    ELSE Goto("getPage", [l EXCEPT !.pageCount = opened.length.value])

\* renderPdfPage / renderPdfPageFromInput after pdf(input) answered
\* opened = [ok, length]: page count and page bounds
pdfOpenStep(opened, l) ==
    IF ~opened.ok THEN catchBlock(PdfOpenError, l)
    ELSE IF ~opened.length.isNumber \/ opened.length.isNaN
            \/ opened.length.value = 0
    THEN catchBlock(PageCountError, l)
    ELSE IF l.page < 1 \/ l.page > opened.length.value
    THEN catchBlock(OutOfRangeError(l.page, opened.length.value),
                    [l EXCEPT !.pageCount = opened.length.value])
    ELSE Goto("getPage", [l EXCEPT !.pageCount = opened.length.value])

\* doc.getPage(pageNum) answered rendered = [ok, width, height]
getPageStep(rendered, l) ==
    IF ~rendered.ok THEN catchBlock(GetPageError, l)
    ELSE Goto("processImageBuffer",
              [l EXCEPT !.imageBuffer =
                            RawBuffer(TRUE, rendered.width, rendered.height, sPNG),
                        !.format = sPNG, !.mimeType = sIMAGE_PNG,
                        !.extraMetadata = PdfExtra(l.page, l.pageCount, l.dpi)])

\* the outcome of processImageBuffer handed back through the entry point
processImageBufferStep(out, l) ==
    IF out.kind = "throw"
    THEN catchBlock(out.error, [l EXCEPT !.pib = out.trace])
    ELSE Respond(out.response, [l EXCEPT !.pib = out.trace])

-----------------------------------------------------------------------------
(* Values the variables of a specification hold while it is not the one run *)

Pending == [kind |-> "pending"]

DetectIdle ==
    /\ dSource = <<>>
    /\ dExists = FALSE
    /\ dResult = "none"
    /\ dConsulted = FALSE

FocusIdle ==
    /\ fImage = RawBuffer(FALSE, 0, 0, <<>>)
    /\ fMax = [width |-> DEFAULT_MAX_WIDTH, height |-> DEFAULT_MAX_HEIGHT]
    /\ fXyxy = NoArray
    /\ fFocal = NoArray
    /\ fOut = Pending

PipeIdle ==
    /\ pc = "idle"
    /\ req = NoRequest
    /\ loc = NoLocals
    /\ log = <<>>
    /\ resp = NoResponse
    /\ pdfToImgMod_pdfUtils = FALSE
    /\ pdfToImgMod_readVisual = FALSE

DefaultConfig == [ALLOWED_DOMAINS |-> <<>>, MAX_IMAGE_SIZE |-> MAX_IMAGE_SIZE]

\* the promises of the concurrent specification
Tasks == {"a", "b"}

\* what the collaborators answer to one request
World(exists, read, got, imported, opened, rendered, oc) ==
    [exists |-> exists, read |-> read, got |-> got, imported |-> imported,
     opened |-> opened, rendered |-> rendered, oc |-> oc]
NoWorld ==
    World(FALSE, [ok |-> FALSE, payload |-> NoPayload],
          [ok |-> FALSE, payload |-> NoPayload, contentType |-> <<>>], FALSE,
          [ok |-> FALSE, length |-> DocLength(FALSE, FALSE, 0)],
          [ok |-> FALSE, width |-> 0, height |-> 0],
          [extract |-> TRUE, resize |-> TRUE, compress |-> TRUE])

Task(label, request, world, l, calls, response) ==
    [pc |-> label, req |-> request, world |-> world, loc |-> l, log |-> calls,
     resp |-> response, after |-> 0]
IdleTask == Task("idle", NoRequest, NoWorld, NoLocals, <<>>, NoResponse)

ConcIdle ==
    /\ tasks = [k \in Tasks |-> IdleTask]
    /\ served = 0
    /\ imports = 0
    /\ failed = 0
    /\ installed = TRUE

-----------------------------------------------------------------------------
(* Specification SpecDetect: detectSourceType applied to bounded references *)

DetectSlack == 4

DetectPrefixes ==
    { <<>>, sHTTP, sHTTPS, sDATA, sUNC, sSLASH,
      <<"H","T","T","P",":","/","/">>, <<"h","t","t","p",":","/">>,
      <<"f","t","p",":","/","/">>, <<"D","a","t","a",":">>,
      <<"C",":","\\">>, <<"d",":","/">>, <<"C",":">>, <<"1",":","/">>,
      <<"\\">>, <<".","/">>, <<".",".","/">>, <<".",".","\\">>,
      <<".",".",".","/">>, <<".",".">>, <<"a">>, <<" ">>, <<" ","/">> }

DetectFill == {"A", "/", "+", " ", "=", ".", "-"}

DetectSuffixes ==
    { <<>>, <<".","p","n","g">>, <<".","P","D","F">>, <<".">>, <<"=">>,
      <<"=","=">>, <<"=","=","=">>, <<" ">>, <<"\n">>, <<".","p","-","g">>,
      <<".","p","n","g"," ">>, <<"=","A">> }

DetectFillLens ==
    (0..DetectSlack) \cup ((MIN_BASE64_LEN - 12)..(MIN_BASE64_LEN + DetectSlack))

DetectLongLens == (MAX_EXT_PATH_LEN - 8)..(MAX_EXT_PATH_LEN + 1)

DetectInputs ==
    { p \o Rep(c, n) \o s :
        p \in DetectPrefixes, c \in DetectFill, n \in DetectFillLens,
        s \in DetectSuffixes }
    \cup
    { p \o Rep(c, n) \o s :
        p \in {<<>>, <<"a">>, <<"a"," ">>}, c \in {"A", "/"}, n \in DetectLongLens,
        s \in {<<>>, <<".","p","n","g">>, <<".","j","p","e","g">>} }

InitDetect ==
    /\ ConcIdle
    /\ dSource \in DetectInputs
    /\ dExists \in BOOLEAN
    /\ dResult = "none"
    /\ dConsulted = FALSE
    /\ FocusIdle
    /\ PipeIdle
    /\ config = DefaultConfig

DetectSourceType ==
    /\ dResult = "none"
    /\ LET r == detectSourceTypeTrace(dSource, dExists)
       IN  /\ dResult' = r.type
           /\ dConsulted' = r.consulted
    /\ UNCHANGED <<dSource, dExists, fvars, pvars, cvars>>

NextDetect == DetectSourceType

SpecDetect == InitDetect /\ [][NextDetect]_vars

-----------------------------------------------------------------------------
(* Specification SpecFocus: processImageBuffer applied to bounded images,   *)
(* regions and maximum output dimensions                                    *)

MaxCoord == 4
MaxSide == 4

\* coordinates as multiples of 1/Q: fractions around the unit interval, then
\* whole pixels
XCoords ==
    {-(Q \div 2), 0, Q \div 4, Q \div 2, Q, 3 * (Q \div 2)}
        \cup {k * Q : k \in 2..MaxCoord}
YCoords == {0, Q \div 2, Q} \cup {k * Q : k \in 2..(MaxCoord - 1)}

FocusRegions ==
    { <<a, b, c, d>> : a \in XCoords, b \in YCoords, c \in XCoords, d \in YCoords }

\* the regions of the focus test, on the 100x100 image: [10,10,60,60],
\* [0.1,0.1,0.6,0.6], [50,50,20,20], [0.5,0.5,0.2,0.2]
TestXyxyPixel == <<10 * Q, 10 * Q, 60 * Q, 60 * Q>>
TestXyxyRatio == <<Q \div 10, Q \div 10, 6 * (Q \div 10), 6 * (Q \div 10)>>
TestFocalPixel == <<50 * Q, 50 * Q, 20 * Q, 20 * Q>>
TestFocalRatio == <<Q \div 2, Q \div 2, Q \div 5, Q \div 5>>

\* <<image width, image height, max width, max height>>
FocusScenarios ==
    { <<1, 1>>, <<MaxSide, MaxSide - 1>>, <<MaxSide - 1, MaxSide>>,
      <<MaxSide + 2, 2>> } \X { <<DEFAULT_MAX_WIDTH, DEFAULT_MAX_HEIGHT>>, <<2, 3>> }
    \cup
    { <<100, 100>>, <<700, 300>>, <<300, 1000>> }
        \X { <<DEFAULT_MAX_WIDTH, DEFAULT_MAX_HEIGHT>> }

\* <<focus_xyxy, focal_point>> pairs
FocusParams ==
    { <<Arr(r), NoArray>> : r \in FocusRegions }
    \cup { <<NoArray, Arr(r)>> : r \in FocusRegions }
    \cup { <<NoArray, NoArray>>, <<Arr(<<>>), NoArray>>,
           <<Arr(<<0, 0, Q>>), Arr(<<Q, Q, Q, Q>>)>>,
           <<Arr(<<Q, Q, 2 * Q, 2 * Q>>), Arr(<<0, 0, Q, Q>>)>>,
           <<Arr(<<0, 0, Q>>), Arr(<<0, 0>>)>>,
           <<NoArray, Arr(<<0, 0>>)>> }

FocusTestInputs ==
    { <<Arr(TestXyxyPixel), NoArray>>, <<Arr(TestXyxyRatio), NoArray>>,
      <<NoArray, Arr(TestFocalPixel)>>, <<NoArray, Arr(TestFocalRatio)>> }

InitFocus ==
    /\ ConcIdle
    /\ \E sc \in FocusScenarios :
          /\ fImage = RawBuffer(TRUE, sc[1][1], sc[1][2], sPNG)
          /\ fMax = [width |-> sc[2][1], height |-> sc[2][2]]
          /\ \E fp \in FocusParams \cup
                       (IF sc[1] = <<100, 100>> THEN FocusTestInputs ELSE {}) :
                /\ fXyxy = fp[1]
                /\ fFocal = fp[2]
    /\ fOut = Pending
    /\ DetectIdle
    /\ PipeIdle
    /\ config = DefaultConfig

FocusRequest ==
    [imageBuffer |-> fImage, format |-> sPNG, mimeType |-> sIMAGE_PNG,
     focus_xyxy |-> fXyxy, focal_point |-> fFocal, extraMetadata |-> NoExtra]

ProcessImageBuffer ==
    /\ fOut = Pending
    /\ \E oc \in SharpOutcomes :
          fOut' = processImageBuffer(FocusRequest, fMax.width, fMax.height, oc)
    /\ UNCHANGED <<fImage, fMax, fXyxy, fFocal, dvars, pvars, cvars>>

NextFocus == ProcessImageBuffer

SpecFocus == InitFocus /\ [][NextFocus]_vars

-----------------------------------------------------------------------------
(* Specification Spec: requests served one after another through the seven  *)
(* entry points, collaborators answering in every way they can              *)

MaxPages == 2

sFILE_PNG == <<"/","i","m","g","/","a",".","p","n","g">>
sFILE_PDF == <<"/","d","o","c","/","a",".","P","D","F">>
sFILE_NOEXT == <<"/","d","o","c","/","s","c","a","n">>
sURL_PNG == <<"h","t","t","p",":","/","/","n","o","t","e","x","a","m","p","l","e",".","c","o","m","/","a",".","p","n","g">>
sURL_USERINFO == <<"h","t","t","p","s",":","/","/","e","x","a","m","p","l","e",".","c","o","m","@","e","v","i","l",".","o","r","g","/","a",".","p","n","g">>
sURL_PDF == <<"h","t","t","p","s",":","/","/","e","x","a","m","p","l","e",".","c","o","m","/","a",".","p","d","f">>
sURL_BARE == <<"h","t","t","p","s",":","/","/","c","d","n",".","E","x","a","m","p","l","e",".","c","o","m">>
sURL_NOHOST == <<"h","t","t","p",":","/","/">>
sURL_FTP == <<"f","t","p",":","/","/","h",".","i","o","/","a",".","p","n","g">>
sEXAMPLE_COM == <<"e","x","a","m","p","l","e",".","c","o","m">>
sB64_SHORT == <<"Q","U","J","D">>
sB64_BAD == <<"a","!","b">>
sB64_PADDING == <<"=","=","=","=">>
sB64_BADCHAR == <<"Q","U","!","D">>
sB64_SPACED == <<"Q","U"," ","J","D">>
sDATA_PNG == <<"d","a","t","a",":","i","m","a","g","e","/","p","n","g",";","b","a","s","e","6","4",",">>
sDATA_PDF == <<"d","a","t","a",":","a","p","p","l","i","c","a","t","i","o","n","/","p","d","f",";","b","a","s","e","6","4",",">>
sDATA_BAD == <<"d","a","t","a",":","i","m","a","g","e","/","p","n","g",",","Q","U","J","D">>
sDATA_NOMARK == <<"d","a","t","a",":","i","m","a","g","e","/","p","n","g",",">>
sDATA_NOMIME == <<"d","a","t","a",":",";","b","a","s","e","6","4",",">>
sJVBERi0x == <<"J","V","B","E","R","i","0","x">>
\* raw base64 long enough for detectSourceType: an image and a PDF
sB64_IMAGE == Rep("A", MIN_BASE64_LEN)
sB64_PDF == sJVBERi0x \o Rep("A", MIN_BASE64_LEN - 4)

\* MAX_IMAGE_SIZE of the restricted environment
SmallMaxSize == MAX_IMAGE_SIZE \div (1024 * 1024)

\* the environment: defaults, and ALLOWED_DOMAINS=example.com with
\* MAX_IMAGE_SIZE=50
Configs ==
    { [ALLOWED_DOMAINS |-> <<>>, MAX_IMAGE_SIZE |-> MAX_IMAGE_SIZE],
      [ALLOWED_DOMAINS |-> <<sEXAMPLE_COM>>,
       MAX_IMAGE_SIZE |-> SmallMaxSize] }

FileSources == {sFILE_PNG, sFILE_PDF, sFILE_NOEXT}
UrlSources == {sURL_PNG, sURL_PDF, sURL_BARE, sURL_NOHOST, sURL_USERINFO}
RawBase64Sources ==
    {sB64_IMAGE, sB64_PDF, sB64_SHORT, sB64_BAD, sB64_PADDING, sB64_BADCHAR,
     sB64_SPACED, <<>>}
DataUrlSources ==
    {sDATA_PNG \o sB64_IMAGE, sDATA_PNG \o sB64_SHORT, sDATA_PDF \o sB64_PDF,
     sDATA_BAD, sDATA_NOMARK \o sB64_IMAGE, sDATA_NOMIME \o sB64_IMAGE, sDATA_PNG}

PageNumbers == 0..(MaxPages + 1)
PipeRegions ==
    { <<NoArray, NoArray>>,
      <<Arr(<<Q \div 4, Q \div 4, 3 * (Q \div 4), 3 * (Q \div 4)>>), NoArray>>,
      <<NoArray, Arr(<<Q \div 2, Q \div 2>>)>> }

\* page, dpi and mime_type as readVisual may receive them
ReadVisualOptions ==
    ({Absent} \cup {Given(n) : n \in PageNumbers})
        \X { <<Absent, Absent>>, <<Given(2 * PDF_DPI), Given(sAPPLICATION_PDF)>> }

SchemaDefaultRequests ==
    { Request("readVisual", s, o[1], o[2][1], r[1], r[2], o[2][2]) :
        s \in FileSources \cup UrlSources \cup DataUrlSources
              \cup {sB64_IMAGE, sB64_PDF, sB64_SHORT, sURL_FTP},
        o \in ReadVisualOptions, r \in PipeRegions }
    \cup
    { Request("extractImageFromFile", s, Absent, Absent, r[1], r[2], Absent) :
        s \in FileSources, r \in PipeRegions }
    \cup
    { Request("extractImageFromUrl", s, Absent, Absent, r[1], r[2], Absent) :
        s \in UrlSources \cup {sURL_FTP}, r \in PipeRegions }
    \cup
    { Request("extractImageFromBase64", s, Absent, Absent, r[1], r[2], Given(m)) :
        s \in RawBase64Sources, r \in PipeRegions, m \in {sIMAGE_PNG, sIMAGE_WEBP} }
    \cup
    { Request("extractPdfFromFile", s, Given(n), Absent, r[1], r[2], Absent) :
        s \in FileSources, n \in PageNumbers, r \in PipeRegions }
    \cup
    { Request("extractPdfFromUrl", s, Given(n), Absent, r[1], r[2], Absent) :
        s \in UrlSources \cup {sURL_FTP}, n \in PageNumbers, r \in PipeRegions }
    \cup
    { Request("extractPdfFromBase64", s, Given(n), Absent, r[1], r[2], Absent) :
        s \in RawBase64Sources, n \in PageNumbers, r \in PipeRegions }

\* resize / max_width / max_height as the extract_* tools may receive them:
\* the schema defaults, the values of the focus test, and small maxima
SizingOptions == { <<TRUE, 512, 512>>, <<FALSE, 1000, 1000>>, <<TRUE, 64, 64>> }

Requests ==
    SchemaDefaultRequests
        \cup { withSizing(r, z[1], z[2], z[3]) :
                  r \in {d \in SchemaDefaultRequests :
                            d.entry # "readVisual" /\ d.page \in {Absent, Given(1)}},
                  z \in SizingOptions }

\* what the collaborators can answer
SmallImage == RawBuffer(TRUE, 100, 100, sPNG)
LargeImage == RawBuffer(TRUE, 800, 600, sJPEG)
Payloads ==
    { Payload(SmallMaxSize, FALSE, SmallImage), Payload(1000, FALSE, LargeImage),
      Payload(1000, TRUE, Undecodable), Payload(40, FALSE, Undecodable),
      Payload(MAX_IMAGE_SIZE + 1, FALSE, SmallImage) }
ReadResults ==
    {[ok |-> FALSE, payload |-> NoPayload]}
        \cup {[ok |-> TRUE, payload |-> p] : p \in Payloads}
sAPPLICATION_X_PDF == <<"a","p","p","l","i","c","a","t","i","o","n","/","x","-","p","d","f">>
ContentTypes == {<<>>, sIMAGE_PNG, sAPPLICATION_PDF, sAPPLICATION_X_PDF}
GetResults ==
    {[ok |-> FALSE, payload |-> NoPayload, contentType |-> <<>>]}
        \cup {[ok |-> TRUE, payload |-> p, contentType |-> t] :
                 p \in Payloads, t \in ContentTypes}
\* 600 x 500 = LARGE_IMAGE_PIXELS
ThresholdImage == RawBuffer(TRUE, 600, LARGE_IMAGE_PIXELS \div 600, sPNG)
DecodedImages == {Undecodable, SmallImage, ThresholdImage}
DocLengths ==
    {DocLength(FALSE, FALSE, 0), DocLength(TRUE, TRUE, 0)}
        \cup {DocLength(TRUE, FALSE, n) : n \in 0..MaxPages}
OpenResults ==
    {[ok |-> FALSE, length |-> DocLength(FALSE, FALSE, 0)]}
        \cup {[ok |-> TRUE, length |-> n] : n \in DocLengths}
PageResults ==
    {[ok |-> FALSE, width |-> 0, height |-> 0],
     [ok |-> TRUE, width |-> 100, height |-> 100],
     [ok |-> TRUE, width |-> 1240, height |-> 1754]}

Init ==
    /\ ConcIdle
    /\ config \in Configs
    /\ PipeIdle
    /\ DetectIdle
    /\ FocusIdle

Apply(step) ==
    /\ pc' = step.pc
    /\ loc' = step.loc
    /\ resp' = step.response

\* a tool call arrives
Call ==
    /\ pc = "idle"
    /\ \E r \in Requests :
          /\ req' = r
          /\ pc' = entryLabel(r.entry)
    /\ loc' = NoLocals
    /\ log' = <<>>
    /\ resp' = NoResponse
    /\ UNCHANGED <<config, pdfToImgMod_pdfUtils, pdfToImgMod_readVisual, dvars, fvars, cvars>>

\* readVisual: detectSourceType and the switch on its answer
Dispatch ==
    /\ pc = "detectSourceType"
    /\ \E exists \in BOOLEAN : Apply(dispatch(req, exists, loc))
    /\ UNCHANGED <<config, req, log, pdfToImgMod_pdfUtils,
                   pdfToImgMod_readVisual, dvars, fvars, cvars>>

ExistsSync ==
    /\ pc = "existsSync"
    /\ \E exists \in BOOLEAN :
          Apply(existsSyncStep(req, exists,
                               [loc EXCEPT !.exists = IF exists THEN "yes" ELSE "no"]))
    /\ log' = Append(log, "existsSync")
    /\ UNCHANGED <<config, req, pdfToImgMod_pdfUtils, pdfToImgMod_readVisual,
                   dvars, fvars, cvars>>

ReadFileSync ==
    /\ pc = "readFileSync"
    /\ \E read \in ReadResults :
          Apply(readFileSyncStep(req, read, config.MAX_IMAGE_SIZE,
                                 [loc EXCEPT !.payload = read.payload]))
    /\ log' = Append(log, "readFileSync")
    /\ UNCHANGED <<config, req, pdfToImgMod_pdfUtils, pdfToImgMod_readVisual,
                   dvars, fvars, cvars>>

ValidateUrl ==
    /\ pc = "validateUrl"
    /\ Apply(validateUrlStep(req, config.ALLOWED_DOMAINS, loc))
    /\ UNCHANGED <<config, req, log, pdfToImgMod_pdfUtils,
                   pdfToImgMod_readVisual, dvars, fvars, cvars>>

AxiosGet ==
    /\ pc = "axiosGet"
    /\ \E got \in GetResults :
          Apply(axiosGetStep(req, got, config.MAX_IMAGE_SIZE,
                             [loc EXCEPT !.payload = got.payload,
                                         !.contentType = got.contentType]))
    /\ log' = Append(log, "axios.get")
    /\ UNCHANGED <<config, req, pdfToImgMod_pdfUtils, pdfToImgMod_readVisual,
                   dvars, fvars, cvars>>

DecodeBase64 ==
    /\ pc = "decodeBase64"
    /\ \E decoded \in DecodedImages :
          Apply(decodeBase64Step(req, decoded, config.MAX_IMAGE_SIZE, loc))
    /\ UNCHANGED <<config, req, log, pdfToImgMod_pdfUtils,
                   pdfToImgMod_readVisual, dvars, fvars, cvars>>

\* getPdfToImg of read-visual.ts (readVisual) or of pdf-utils.ts (extractPdf*):
\* the module variable is tested, and assigned when the import resolves
GetPdfToImg ==
    /\ pc = "getPdfToImg"
    /\ \/ /\ IF req.entry = "readVisual" THEN pdfToImgMod_readVisual
             ELSE pdfToImgMod_pdfUtils
          /\ Apply(Goto("pdf", loc))
          /\ UNCHANGED <<log, pdfToImgMod_pdfUtils, pdfToImgMod_readVisual>>
       \/ /\ ~(IF req.entry = "readVisual" THEN pdfToImgMod_readVisual
               ELSE pdfToImgMod_pdfUtils)
          /\ log' = Append(log, "import")
          /\ \E ok \in BOOLEAN :
                IF ok
                THEN /\ Apply(Goto("pdf", loc))
                     /\ pdfToImgMod_readVisual' =
                            (pdfToImgMod_readVisual \/ req.entry = "readVisual")
                     /\ pdfToImgMod_pdfUtils' =
                            (pdfToImgMod_pdfUtils \/ req.entry # "readVisual")
                ELSE /\ Apply(catchBlock(ImportError, loc))
                     /\ UNCHANGED <<pdfToImgMod_pdfUtils, pdfToImgMod_readVisual>>
    /\ UNCHANGED <<config, req, dvars, fvars, cvars>>

PdfOpen ==
    /\ pc = "pdf"
    /\ \E opened \in OpenResults :
          Apply(pdfOpenStep(opened, [loc EXCEPT !.opened = opened]))
    /\ log' = Append(log, "pdf")
    /\ UNCHANGED <<config, req, pdfToImgMod_pdfUtils, pdfToImgMod_readVisual,
                   dvars, fvars, cvars>>

GetPage ==
    /\ pc = "getPage"
    /\ \E rendered \in PageResults : Apply(getPageStep(rendered, loc))
    /\ log' = Append(log, "getPage")
    /\ UNCHANGED <<config, req, pdfToImgMod_pdfUtils, pdfToImgMod_readVisual,
                   dvars, fvars, cvars>>

\* the object the entry points pass to processImageBuffer
PipeParamsOf(request, l) ==
    [imageBuffer |-> l.imageBuffer, format |-> l.format,
     mimeType |-> l.mimeType, focus_xyxy |-> request.focus_xyxy,
     focal_point |-> request.focal_point, extraMetadata |-> l.extraMetadata]

PipeParams == PipeParamsOf(req, loc)

\* pibMaxima honouring the request: no limit when resize is false, else
\* max_width x max_height
pibMaxima_FromRequest(request) ==
    IF request.resize
    THEN [width |-> request.max_width, height |-> request.max_height]
    ELSE [width |-> 1024 * 1024, height |-> 1024 * 1024]

\* the maxima of the resize step: DEFAULT_MAX_WIDTH x DEFAULT_MAX_HEIGHT,
\* whatever the request says
pibMaxima(request) ==
    [width |-> DEFAULT_MAX_WIDTH, height |-> DEFAULT_MAX_HEIGHT]

RunProcessImageBuffer ==
    /\ pc = "processImageBuffer"
    /\ \E oc \in SharpOutcomes :
          Apply(processImageBufferStep(
                    processImageBuffer(PipeParams, pibMaxima(req).width,
                                       pibMaxima(req).height, oc), loc))
    /\ log' = Append(log, "processImageBuffer")
    /\ UNCHANGED <<config, req, pdfToImgMod_pdfUtils, pdfToImgMod_readVisual,
                   dvars, fvars, cvars>>

\* the response has been handed to the caller; the module state stays
Complete ==
    /\ pc \in {"done", "rejected"}
    /\ pc' = "idle"
    /\ req' = NoRequest
    /\ loc' = NoLocals
    /\ log' = <<>>
    /\ resp' = NoResponse
    /\ UNCHANGED <<config, pdfToImgMod_pdfUtils, pdfToImgMod_readVisual, dvars, fvars, cvars>>

Next ==
    \/ Call
    \/ Dispatch
    \/ ExistsSync
    \/ ReadFileSync
    \/ ValidateUrl
    \/ AxiosGet
    \/ DecodeBase64
    \/ GetPdfToImg
    \/ PdfOpen
    \/ GetPage
    \/ RunProcessImageBuffer
    \/ Complete

Spec == Init /\ [][Next]_vars

-----------------------------------------------------------------------------
(* Specification SpecConc: tool calls served at the same time on one event  *)
(* loop. A step runs from one await to the next; what precedes the first    *)
(* await of an entry point (fs.existsSync, fs.readFileSync, the test of     *)
(* pdfToImgMod and the evaluation of import()) runs with the call.          *)

MaxRequests == 3

\* the labels at which a request runs on without awaiting
SyncLabels ==
    {"detectSourceType", "existsSync", "readFileSync", "validateUrl",
     "getPdfToImg"}

\* getPdfToImg up to its await: `if (!pdfToImgMod)` and, the variable being
\* null, the evaluation of import('pdf-to-img')
getPdfToImgStep(cached, l) ==
    IF cached THEN Goto("pdf", l) ELSE Goto("import", l)

\* importSettled assigning pdfToImgMod whether the promise resolves or not
importSettled_KeepFailure(ok, l) ==
    [step |-> IF ok THEN Goto("pdf", l) ELSE catchBlock(ImportError, l),
     assigned |-> TRUE]

\* `pdfToImgMod = await import(...)` settling: the assignment is made only
\* when the promise resolves, a rejection goes to the entry point's catch
importSettled(ok, l) ==
    [step |-> IF ok THEN Goto("pdf", l) ELSE catchBlock(ImportError, l),
     assigned |-> ok]

\* the collaborator call a synchronous label stands for, if any
syncCall(label, step) ==
    IF label \in {"existsSync", "readFileSync"} THEN <<label>>
    ELSE IF label = "getPdfToImg" /\ step.pc = "import" THEN <<"import">>
    ELSE <<>>

\* one synchronous label of task t
syncStep(t, cached, maxSize) ==
    IF t.pc = "detectSourceType" THEN dispatch(t.req, t.world.exists, t.loc)
    ELSE IF t.pc = "existsSync"
    THEN existsSyncStep(t.req, t.world.exists,
                        [t.loc EXCEPT !.exists = IF t.world.exists THEN "yes"
                                                 ELSE "no"])
    ELSE IF t.pc = "readFileSync"
    THEN readFileSyncStep(t.req, t.world.read, maxSize,
                          [t.loc EXCEPT !.payload = t.world.read.payload])
    ELSE IF t.pc = "validateUrl"
    THEN validateUrlStep(t.req, <<>>, t.loc)
    ELSE getPdfToImgStep(cached, t.loc)

\* task t taken to what step says, calls being the collaborator calls made
advance(t, step, calls) ==
    [t EXCEPT !.pc = step.pc, !.loc = step.loc, !.resp = step.response,
              !.log = @ \o calls]

\* task t run on to its next await (or to its result)
RECURSIVE runSync(_, _, _)
runSync(t, cached, maxSize) ==
    IF t.pc \notin SyncLabels THEN t
    ELSE runSync(advance(t, syncStep(t, cached, maxSize),
                         syncCall(t.pc, syncStep(t, cached, maxSize))),
                 cached, maxSize)

\* what an await of task t resumes with
awaitStep(t) ==
    IF t.pc = "axiosGet"
    THEN axiosGetStep(t.req, t.world.got, MAX_IMAGE_SIZE,
                      [t.loc EXCEPT !.payload = t.world.got.payload,
                                    !.contentType = t.world.got.contentType])
    ELSE IF t.pc = "import" THEN importSettled(t.world.imported, t.loc).step
    ELSE IF t.pc = "pdf"
    THEN pdfOpenStep(t.world.opened, [t.loc EXCEPT !.opened = t.world.opened])
    ELSE IF t.pc = "getPage" THEN getPageStep(t.world.rendered, t.loc)
    ELSE processImageBufferStep(
             processImageBuffer(PipeParamsOf(t.req, t.loc), pibMaxima(t.req).width,
                                pibMaxima(t.req).height, t.world.oc), t.loc)

\* the request served with nothing else in flight and no module loaded:
\* n bounds the number of awaits
RECURSIVE runAlone(_, _, _)
runAlone(t, maxSize, n) ==
    IF n = 0 \/ t.pc \in {"done", "rejected"} THEN t
    ELSE runAlone(runSync(advance(t, awaitStep(t),
                                  IF t.pc = "import" THEN <<>>
                                  ELSE IF t.pc = "axiosGet" THEN <<"axios.get">>
                                  ELSE <<t.pc>>),
                          FALSE, maxSize),
                  maxSize, n - 1)

\* the task a call starts
startTask(request, world) ==
    Task(entryLabel(request.entry), request, world, NoLocals, <<>>, NoResponse)

\* the result of request under world when it is the only one ever served
resultAlone(request, world, maxSize) ==
    runAlone(runSync(startTask(request, world), FALSE, maxSize),
             maxSize, 5).resp

\* the requests of the concurrent specification: documents through both
\* families of entry points, page 3 being out of range, and an image
ConcRequests ==
    { Request("readVisual", sFILE_PDF, Absent, Absent, NoArray, NoArray, Absent),
      Request("extractPdfFromFile", sFILE_PDF, Given(1), Absent, NoArray, NoArray,
              Absent),
      Request("extractPdfFromFile", sFILE_PDF, Given(MaxPages + 1), Absent,
              NoArray, NoArray, Absent),
      Request("extractImageFromFile", sFILE_PNG, Absent, Absent, NoArray, NoArray,
              Absent),
      Request("readVisual", sURL_PDF, Given(MaxPages), Absent, NoArray, NoArray,
              Absent) }

AllSucceed == [extract |-> TRUE, resize |-> TRUE, compress |-> TRUE]

\* the answers of the collaborators to one request, import() answering as
\* the installation has it
ConcWorlds(imported) ==
    { World(TRUE, [ok |-> TRUE, payload |-> p],
            [ok |-> TRUE, payload |-> p, contentType |-> sAPPLICATION_PDF],
            imported, o,
            [ok |-> TRUE, width |-> 1240, height |-> 1754], AllSucceed) :
        p \in {Payload(1000, TRUE, Undecodable), Payload(1000, FALSE, LargeImage)},
        o \in {[ok |-> FALSE, length |-> DocLength(FALSE, FALSE, 0)],
               [ok |-> TRUE, length |-> DocLength(TRUE, FALSE, MaxPages)]} }
    \cup
    { World(FALSE, [ok |-> FALSE, payload |-> NoPayload],
            [ok |-> FALSE, payload |-> NoPayload, contentType |-> <<>>], imported,
            [ok |-> FALSE, length |-> DocLength(FALSE, FALSE, 0)],
            [ok |-> FALSE, width |-> 0, height |-> 0], AllSucceed) }

InitConc ==
    /\ tasks = [k \in Tasks |-> IdleTask]
    /\ served = 0
    /\ imports = 0
    /\ failed = 0
    /\ installed \in BOOLEAN
    /\ config = DefaultConfig
    /\ pc = "idle"
    /\ req = NoRequest
    /\ loc = NoLocals
    /\ log = <<>>
    /\ resp = NoResponse
    /\ pdfToImgMod_pdfUtils = FALSE
    /\ pdfToImgMod_readVisual = FALSE
    /\ DetectIdle
    /\ FocusIdle

\* the pdfToImgMod that the entry point of request reads and assigns
cachedFor(request) ==
    IF request.entry = "readVisual" THEN pdfToImgMod_readVisual
    ELSE pdfToImgMod_pdfUtils

\* the number of import() evaluations recorded in calls
importsIn(calls) == Cardinality({i \in 1..Len(calls) : calls[i] = "import"})

\* the requests ended in an error once task k has taken its step
failedWith(k) ==
    IF tasks'[k].pc = "rejected" \/ (tasks'[k].pc = "done" /\ tasks'[k].resp.isError)
    THEN failed + 1
    ELSE failed

\* a tool call arrives and runs to its first await
ConcCall(k) ==
    /\ tasks[k].pc = "idle"
    /\ served < MaxRequests
    /\ \E r \in ConcRequests, w \in ConcWorlds(installed) :
          /\ tasks' = [tasks EXCEPT ![k] =
                          runSync([startTask(r, w) EXCEPT !.after = failed],
                                  cachedFor(r), config.MAX_IMAGE_SIZE)]
          /\ imports' = imports + importsIn(tasks'[k].log)
    /\ served' = served + 1
    /\ failed' = failedWith(k)
    /\ UNCHANGED <<installed, pvars, dvars, fvars>>

\* axios.get settles for task k, which runs on to its next await
ConcAxiosGot(k) ==
    /\ tasks[k].pc = "axiosGet"
    /\ tasks' = [tasks EXCEPT ![k] =
                    runSync(advance(@, awaitStep(@), <<"axios.get">>),
                            cachedFor(tasks[k].req), config.MAX_IMAGE_SIZE)]
    /\ imports' = imports + importsIn(tasks'[k].log)
    /\ failed' = failedWith(k)
    /\ UNCHANGED <<served, installed, pvars, dvars, fvars>>

\* ConcImportSettled assigning pdfToImgMod when the import was rejected too
ConcImportSettled_AssignOnReject(k) ==
    /\ tasks[k].pc = "import"
    /\ tasks' = [tasks EXCEPT ![k] = advance(@, awaitStep(@), <<>>)]
    /\ pdfToImgMod_readVisual' =
          (pdfToImgMod_readVisual \/ tasks[k].req.entry = "readVisual")
    /\ pdfToImgMod_pdfUtils' =
          (pdfToImgMod_pdfUtils \/ tasks[k].req.entry # "readVisual")
    /\ failed' = failedWith(k)
    /\ UNCHANGED <<served, imports, installed, config, pc, req, loc, log, resp,
                   dvars, fvars>>

\* import('pdf-to-img') settles for task k
ConcImportSettled(k) ==
    /\ tasks[k].pc = "import"
    /\ tasks' = [tasks EXCEPT ![k] = advance(@, awaitStep(@), <<>>)]
    /\ IF importSettled(tasks[k].world.imported, tasks[k].loc).assigned
       THEN /\ pdfToImgMod_readVisual' =
                  (pdfToImgMod_readVisual \/ tasks[k].req.entry = "readVisual")
            /\ pdfToImgMod_pdfUtils' =
                  (pdfToImgMod_pdfUtils \/ tasks[k].req.entry # "readVisual")
       ELSE UNCHANGED <<pdfToImgMod_pdfUtils, pdfToImgMod_readVisual>>
    /\ failed' = failedWith(k)
    /\ UNCHANGED <<served, imports, installed, config, pc, req, loc, log, resp,
                   dvars, fvars>>

\* pdf(input) settles for task k
ConcPdfOpened(k) ==
    /\ tasks[k].pc = "pdf"
    /\ tasks' = [tasks EXCEPT ![k] = advance(@, awaitStep(@), <<"pdf">>)]
    /\ failed' = failedWith(k)
    /\ UNCHANGED <<served, imports, installed, pvars, dvars, fvars>>

\* doc.getPage(pageNum) settles for task k
ConcPageRendered(k) ==
    /\ tasks[k].pc = "getPage"
    /\ tasks' = [tasks EXCEPT ![k] = advance(@, awaitStep(@), <<"getPage">>)]
    /\ failed' = failedWith(k)
    /\ UNCHANGED <<served, imports, installed, pvars, dvars, fvars>>

\* processImageBuffer settles for task k
ConcProcessed(k) ==
    /\ tasks[k].pc = "processImageBuffer"
    /\ tasks' = [tasks EXCEPT ![k] =
                    advance(@, awaitStep(@), <<"processImageBuffer">>)]
    /\ failed' = failedWith(k)
    /\ UNCHANGED <<served, imports, installed, pvars, dvars, fvars>>

\* the caller of task k has its result
ConcReturn(k) ==
    /\ tasks[k].pc = "done"
    /\ tasks' = [tasks EXCEPT ![k] = IdleTask]
    /\ UNCHANGED <<served, imports, failed, installed, pvars, dvars, fvars>>

NextConc ==
    \E k \in Tasks :
        \/ ConcCall(k)
        \/ ConcAxiosGot(k)
        \/ ConcImportSettled(k)
        \/ ConcPdfOpened(k)
        \/ ConcPageRendered(k)
        \/ ConcProcessed(k)
        \/ ConcReturn(k)

SpecConc == InitConc /\ [][NextConc]_vars

-----------------------------------------------------------------------------
(* Claims on the Region & Scale Normalizer, checked under SpecFocus *)

fDone == fOut.kind \in {"return", "throw"}
fReturned == fOut.kind = "return"
fMeta == fOut.response.content[1].text
fW == fImage.width
fH == fImage.height

\* the region that decides the crop and its kind, as the claims read them
fRegionGiven == hasLen4(fXyxy) \/ hasLen4(fFocal)
fRegion == IF hasLen4(fXyxy) THEN fXyxy.v ELSE fFocal.v
fRegionIsXyxy == hasLen4(fXyxy)
AllInUnit(v) == \A i \in 1..4 : 0 <= v[i] /\ v[i] <= Q

\* a region read with all four numbers as ratios of the image width/height
C5_AsRatios(v, xyxy, W, H) ==
    IF xyxy
    THEN [left |-> RoundDiv(v[1] * W, Q), top |-> RoundDiv(v[2] * H, Q),
          width |-> RoundDiv((v[3] - v[1]) * W, Q),
          height |-> RoundDiv((v[4] - v[2]) * H, Q)]
    ELSE [left |-> RoundDiv((v[1] - v[3]) * W, Q),
          top |-> RoundDiv((v[2] - v[4]) * H, Q),
          width |-> RoundDiv(2 * v[3] * W, Q),
          height |-> RoundDiv(2 * v[4] * H, Q)]

\* a region read with all four numbers as absolute pixels
C5_AsPixels(v, xyxy) ==
    IF xyxy
    THEN [left |-> RoundDiv(v[1], Q), top |-> RoundDiv(v[2], Q),
          width |-> RoundDiv(v[3] - v[1], Q), height |-> RoundDiv(v[4] - v[2], Q)]
    ELSE [left |-> RoundDiv(v[1] - v[3], Q), top |-> RoundDiv(v[2] - v[4], Q),
          width |-> RoundDiv(2 * v[3], Q), height |-> RoundDiv(2 * v[4], Q)]

\* C5: a region of four numbers is resolved with all four as ratios when all
\* four lie in [0,1] (so [0,0,1,1] selects the whole image) and with all four
\* as absolute pixels otherwise; never a mixture.
C5_AllOrNothing ==
    (fDone /\ fRegionGiven) =>
        /\ fOut.trace.focus.resolved =
              (IF AllInUnit(fRegion)
               THEN C5_AsRatios(fRegion, fRegionIsXyxy, fW, fH)
               ELSE C5_AsPixels(fRegion, fRegionIsXyxy))
        /\ (fRegion = <<0, 0, Q, Q>> /\ fRegionIsXyxy) =>
              /\ fOut.trace.focus.extract
              /\ fOut.trace.focus.rect =
                    [left |-> 0, top |-> 0, width |-> fW, height |-> fH]

\* focus_xyxy [0,0,1,1] on a 4x3 image crops the whole image, not one pixel
C5_Witness ==
    /\ fReturned
    /\ fXyxy = Arr(<<0, 0, Q, Q>>)
    /\ fW = MaxSide /\ fH = MaxSide - 1
    /\ fOut.trace.focus.extract
    /\ fOut.trace.focus.rect.width = MaxSide

\* C6: an applied crop lies inside the image with positive size; when the
\* clamped width or height is <= 0 no crop is applied, the request does not
\* fail for it, and the uncropped source image goes on to the resize step.
C6_CropInBounds ==
    fDone =>
        LET f == fOut.trace.focus
        IN  /\ f.extract =>
                  /\ f.rect.left >= 0 /\ f.rect.top >= 0
                  /\ f.rect.width > 0 /\ f.rect.height > 0
                  /\ f.rect.left + f.rect.width <= fW
                  /\ f.rect.top + f.rect.height <= fH
            /\ (fRegionGiven /\ (f.rect.width <= 0 \/ f.rect.height <= 0)) =>
                  /\ ~f.extract
                  /\ \A i \in 1..Len(fOut.trace.calls) :
                        fOut.trace.calls[i] # "extract"
                  /\ fOut.trace.entering = [width |-> fW, height |-> fH]
                  /\ fOut.kind = "throw" => fOut.trace.resized
            /\ (f.extract <=> \E i \in 1..Len(fOut.trace.calls) :
                                   fOut.trace.calls[i] = "extract")

\* an inverted region: clamped width negative, result is the whole image
C6_Witness ==
    /\ fReturned
    /\ fRegionGiven
    /\ fOut.trace.focus.rect.width < 0
    /\ ~fOut.trace.focus.extract
    /\ fMeta.width = fW /\ fMeta.height = fH

\* the region's size in units of 1/Q pixel, as C7 defines it
C7_SizeW == (IF fRegionIsXyxy THEN fRegion[3] - fRegion[1] ELSE 2 * fRegion[3])
            * (IF AllInUnit(fRegion) THEN fW ELSE 1)
C7_SizeH == (IF fRegionIsXyxy THEN fRegion[4] - fRegion[2] ELSE 2 * fRegion[4])
            * (IF AllInUnit(fRegion) THEN fH ELSE 1)
C7_Left == (IF fRegionIsXyxy THEN fRegion[1] ELSE fRegion[1] - fRegion[3])
           * (IF AllInUnit(fRegion) THEN fW ELSE 1)
C7_Top == (IF fRegionIsXyxy THEN fRegion[2] ELSE fRegion[2] - fRegion[4])
          * (IF AllInUnit(fRegion) THEN fH ELSE 1)

\* a non-empty region entirely inside the image, no larger than the maxima
C7_InsideAndSmall ==
    /\ fRegionGiven
    /\ C7_SizeW > 0 /\ C7_SizeH > 0
    /\ C7_Left >= 0 /\ C7_Top >= 0
    /\ C7_Left + C7_SizeW <= fW * Q
    /\ C7_Top + C7_SizeH <= fH * Q
    /\ C7_SizeW <= fMax.width * Q
    /\ C7_SizeH <= fMax.height * Q

\* C7 as claimed: for a region inside the image and within the maxima the
\* reported dimensions equal the region's size.
C7_Original ==
    (fReturned /\ C7_InsideAndSmall) =>
        /\ fMeta.width * Q = C7_SizeW
        /\ fMeta.height * Q = C7_SizeH

\* C7 as amended: the same for regions whose size is a whole number of pixels
\* in both axes; the four regions of the focus test give 50x50 and 40x40.
C7_WholePixelSize ==
    /\ (fReturned /\ C7_InsideAndSmall /\ C7_SizeW % Q = 0 /\ C7_SizeH % Q = 0) =>
          /\ fMeta.width * Q = C7_SizeW
          /\ fMeta.height * Q = C7_SizeH
    /\ (fReturned /\ fW = 100 /\ fH = 100) =>
          /\ fXyxy \in {Arr(TestXyxyPixel), Arr(TestXyxyRatio)} =>
                (fMeta.width = 50 /\ fMeta.height = 50)
          /\ fFocal \in {Arr(TestFocalPixel), Arr(TestFocalRatio)} =>
                (fMeta.width = 40 /\ fMeta.height = 40)

\* focal_point [0.5,0.5,0.2,0.2] on the 100x100 image gives 40x40
C7_Witness ==
    /\ fReturned
    /\ fW = 100 /\ fH = 100
    /\ fFocal = Arr(TestFocalRatio)
    /\ fOut.trace.focus.extract
    /\ fMeta.width = 40 /\ fMeta.height = 40

\* the image entering the resize step: the cropped one if a crop was applied
C8_EnteringWidth ==
    IF fOut.trace.focus.extract THEN fOut.trace.focus.rect.width ELSE fW
C8_EnteringHeight ==
    IF fOut.trace.focus.extract THEN fOut.trace.focus.rect.height ELSE fH

\* C8: the reported width and height never exceed those of the image that
\* entered the resize step.
C8_NoUpscale ==
    fReturned =>
        /\ fMeta.width <= C8_EnteringWidth
        /\ fMeta.height <= C8_EnteringHeight

\* an image that was resized, and came out smaller
C8_Witness ==
    /\ fReturned
    /\ fOut.trace.resized
    /\ fMeta.width < C8_EnteringWidth
    /\ fMeta.height < C8_EnteringHeight

\* C9: the reported dimensions never exceed the configured maxima, and an
\* image within both maxima after the optional crop is not resized.
C9_WithinMaxima ==
    fReturned =>
        /\ fMeta.width <= fMax.width
        /\ fMeta.height <= fMax.height
        /\ (C8_EnteringWidth <= fMax.width /\ C8_EnteringHeight <= fMax.height) =>
              /\ ~fOut.trace.resized
              /\ \A i \in 1..Len(fOut.trace.calls) : fOut.trace.calls[i] # "resize"
              /\ fMeta.width = C8_EnteringWidth
              /\ fMeta.height = C8_EnteringHeight

\* a 700x300 image comes out 512x219 under the default maxima
C9_Witness ==
    /\ fReturned
    /\ fW = 700 /\ fH = 300
    /\ fMax = [width |-> DEFAULT_MAX_WIDTH, height |-> DEFAULT_MAX_HEIGHT]
    /\ ~fOut.trace.focus.extract
    /\ fMeta.width = 512 /\ fMeta.height = 219

-----------------------------------------------------------------------------
(* Claims on the Source Classifier, checked under SpecDetect *)

\* C2: every reference that begins with http:// or https:// is classified
\* "url" and every reference that begins with data: is classified "base64",
\* whatever follows the prefix.
C2_PrefixDecides ==
    dResult # "none" =>
        /\ (startsWith(dSource, <<"h","t","t","p",":","/","/">>)
               \/ startsWith(dSource, <<"h","t","t","p","s",":","/","/">>))
           => dResult = "url"
        /\ startsWith(dSource, <<"d","a","t","a",":">>) => dResult = "base64"

\* a data: reference whose tail has the shape of a file name with extension
C2_Witness ==
    /\ dResult = "base64"
    /\ startsWith(dSource, sDATA)
    /\ hasExtension(dSource)
    /\ Len(dSource) > MIN_BASE64_LEN

\* the path shapes the claim lists, written from the claim
C3_ListedPathShape(s) ==
    \/ /\ Len(s) >= 3
       /\ s[1] \in AlphaChars
       /\ s[2] = ":"
       /\ s[3] \in {"\\", "/"}
    \/ startsWith(s, <<"\\","\\">>)
    \/ startsWith(s, <<"/">>)
    \/ startsWith(s, <<".","/">>)
    \/ startsWith(s, <<".",".","/">>)
    \/ /\ \E i \in 1..(Len(s) - 1) :
             s[i] = "." /\ \A j \in (i + 1)..Len(s) : s[j] \in AlnumChars
       /\ \A i \in 1..Len(s) : s[i] # " "
       /\ Len(s) < 500

C3_IsUrlOrData(s) ==
    \/ startsWith(s, sHTTP)
    \/ startsWith(s, sHTTPS)
    \/ startsWith(s, sDATA)

\* C3: first match wins: a reference that is neither URL nor data-URI and has
\* one of the listed path shapes is classified "file" even when it is plausible
\* base64, and the base64 rule is evaluated only when no path shape matched.
C3_PathBeforeBase64 ==
    dResult # "none" =>
        /\ (~C3_IsUrlOrData(dSource) /\ C3_ListedPathShape(dSource))
           => (dResult = "file" /\ ~dConsulted)
        /\ dConsulted => ~C3_ListedPathShape(dSource)

\* a plausible base64 string that starts with "/" and is classified "file"
C3_Witness ==
    /\ dResult = "file"
    /\ startsWith(dSource, sSLASH)
    /\ isValidBase64(dSource)

\* the precondition of C4 as the claim words it
C4_LooksLikeBase64(s) ==
    /\ Len(s) >= 100
    /\ LET b == stripWhitespace(s)
       IN  /\ Len(b) % 4 = 0
           /\ \E k \in 0..2 :
                 /\ k <= Len(b)
                 /\ \A i \in 1..(Len(b) - k) : b[i] \in B64Chars
                 /\ \A i \in (Len(b) - k + 1)..Len(b) : b[i] = "="

\* C4 as claimed: every string of length >= 100 whose whitespace-stripped
\* form has a length that is a multiple of 4 and is base64 alphabet followed by
\* at most two "=" is classified "base64".
C4_Original ==
    (dResult # "none" /\ C4_LooksLikeBase64(dSource)) => dResult = "base64"

\* C4 as amended: the same, for strings that do not begin with "/" and whose
\* whitespace-stripped form is not empty.
C4_RawBase64Detected ==
    (/\ dResult # "none"
     /\ C4_LooksLikeBase64(dSource)
     /\ ~startsWith(dSource, <<"/">>)
     /\ Len(stripWhitespace(dSource)) > 0)
    => dResult = "base64"

\* a raw base64 string holding whitespace and padding, classified "base64"
C4_Witness ==
    /\ dResult = "base64"
    /\ dConsulted
    /\ C4_LooksLikeBase64(dSource)
    /\ Len(stripWhitespace(dSource)) < Len(dSource)
    /\ endsWith(dSource, <<"=","=">>)


-----------------------------------------------------------------------------
(* Claims on the entry points, checked under Spec *)

pDone == pc = "done"

\* [text part with the metadata, image part with data and mimeType], no error flag
IsSuccessResponse(r) ==
    /\ ~r.isError
    /\ Len(r.content) = 2
    /\ r.content[1].type = "text"
    /\ {"width", "height", "format", "size"} \subseteq DOMAIN r.content[1].text
    /\ r.content[2].type = "image"
    /\ DOMAIN r.content[2] = {"type", "data", "mimeType"}
    /\ r.content[2].mimeType # <<>>

\* exactly one text part holding a message, with isError = true
IsErrorResponse(r) ==
    /\ r.isError
    /\ Len(r.content) = 1
    /\ r.content[1].type = "text"
    /\ DOMAIN r.content[1].text = {"template", "args"}

CollaboratorErrors ==
    {ReadFileError, AxiosError, ImportError, PdfOpenError, GetPageError,
     SharpInputError}

\* C1: whatever the input and whichever collaborator fails, no entry point
\* lets an error through to its caller (the request never ends rejected), and
\* the response it resolves to is either the two-part success response
\* without error flag or the one-part text response with isError = true.
C1_AlwaysResponds ==
    /\ pc # "rejected"
    /\ pDone => (IsSuccessResponse(resp) \/ IsErrorResponse(resp))

\* a collaborator failed and the entry point answered with an error response
C1_Witness ==
    /\ pDone
    /\ loc.error \in CollaboratorErrors
    /\ IsErrorResponse(resp)
    /\ resp.content[1].text = CaughtText(loc.error)

\* the page the request asks for (readVisual: 1 when none is given)
RequestedPage == IF req.page.present THEN req.page.value ELSE 1

\* the document was opened and reported a page count N >= 1
PageCountKnown == loc.pageCount >= 1
PageInRange == RequestedPage >= 1 /\ RequestedPage <= loc.pageCount

C10_OutOfRangeAnswer ==
    /\ resp = ErrorResponse(CaughtText(OutOfRangeError(RequestedPage, loc.pageCount)))
    /\ \A i \in 1..Len(log) : log[i] # "getPage"

C10_SuccessAnswer ==
    /\ IsSuccessResponse(resp)
    /\ resp.content[1].text.extra.has
    /\ resp.content[1].text.extra.page = RequestedPage
    /\ resp.content[1].text.extra.totalPages = loc.pageCount

\* C10 as stated: with a page count N >= 1, a page outside [1, N] gives the
\* 'out of range' error naming the page and N without any page being
\* rasterized, and a page inside [1, N] always gives a successful result
\* with page and totalPages = N in its metadata.
C10_Original ==
    (pDone /\ PageCountKnown) =>
        IF PageInRange THEN C10_SuccessAnswer ELSE C10_OutOfRangeAnswer

\* C10, amended: with a page count N >= 1, a page outside [1, N] gives the
\* 'out of range' error naming the page and N without any page being
\* rasterized; a page inside [1, N] gives a successful result with page and
\* totalPages = N in its metadata whenever rasterizing the page and decoding,
\* cropping and resizing the rendered image succeed, and otherwise the error
\* response of the failed step.
C10_PageBounds ==
    (pDone /\ PageCountKnown) =>
        IF PageInRange
        THEN IF loc.error = NoError THEN C10_SuccessAnswer
             ELSE resp = ErrorResponse(CaughtText(loc.error))
        ELSE C10_OutOfRangeAnswer

\* the last page of a document is asked for and returned
C10_Witness ==
    /\ pDone
    /\ loc.pageCount = MaxPages
    /\ RequestedPage = MaxPages
    /\ C10_SuccessAnswer


\* C11: when fs.existsSync answers that the file is not there, readVisual,
\* extractImageFromFile and extractPdfFromFile alike answer with the error
\* 'File ... does not exist', whatever page, dpi and region were asked for,
\* and nothing else was called: no read, no render, no image decode.
C11_NotFoundFirst ==
    (pc # "idle" /\ loc.exists = "no") =>
        /\ pDone
        /\ resp = ErrorResponse(FileNotFoundText(req.source))
        /\ log = <<"existsSync">>
        /\ loc.payload = NoPayload
        /\ loc.pib = NoPib

\* a missing PDF asked for with the invalid page 0 and a region
C11_Witness ==
    /\ pDone
    /\ loc.exists = "no"
    /\ req.entry = "extractPdfFromFile"
    /\ req.page = Given(0)
    /\ req.focus_xyxy.present
    /\ resp = ErrorResponse(FileNotFoundText(req.source))


\* the bytes read, fetched or decoded for the request exceed MAX_IMAGE_SIZE
PayloadTooLarge == loc.payload.length > config.MAX_IMAGE_SIZE

\* the responses that reject a payload for its size: the four size errors of
\* the entry points and the maxContentLength rejection of axios
SizeRejections ==
    {SizeExceededText(w, config.MAX_IMAGE_SIZE) :
        w \in {"Image", "PDF", "File", "Content"}}
        \cup {CaughtText(AxiosTooLargeError(config.MAX_IMAGE_SIZE))}

DownstreamCalls == {"import", "pdf", "getPage", "processImageBuffer"}

\* C12: for every entry point and source kind, a payload longer than
\* MAX_IMAGE_SIZE ends in an error response and reaches neither the PDF/image
\* routing, nor the renderer, nor processImageBuffer; and a response that
\* rejects a payload for its size is given only to a payload longer than
\* MAX_IMAGE_SIZE.
C12_SizeLimit ==
    /\ (pc # "idle" /\ PayloadTooLarge) =>
          /\ pDone
          /\ IsErrorResponse(resp)
          /\ loc.pdfInput = "none"
          /\ loc.imageBuffer = Undecodable
          /\ loc.pib = NoPib
          /\ \A i \in 1..Len(log) : log[i] \notin DownstreamCalls
    /\ (pDone /\ IsErrorResponse(resp)
              /\ resp.content[1].text \in SizeRejections) => PayloadTooLarge

\* a file of exactly MAX_IMAGE_SIZE bytes is processed
C12_Witness ==
    /\ pDone
    /\ req.entry \in {"readVisual", "extractImageFromFile"}
    /\ loc.exists = "yes"
    /\ loc.payload.length = config.MAX_IMAGE_SIZE
    /\ IsSuccessResponse(resp)


\* the request carries an http(s) URL whose domain check has been made
UrlChecked ==
    /\ pc \notin {"idle", "detectSourceType", "validateUrl"}
    /\ startsWith(req.source, sHTTP) \/ startsWith(req.source, sHTTPS)
    /\ urlHostname(req.source) # <<>>

\* the host is an entry of ALLOWED_DOMAINS or ends with '.' + an entry
HostListed ==
    \E k \in 1..Len(config.ALLOWED_DOMAINS) :
        \/ urlHostname(req.source) = config.ALLOWED_DOMAINS[k]
        \/ endsWith(urlHostname(req.source), <<".">> \o config.ALLOWED_DOMAINS[k])

DomainRejectedText(domain) ==
    Msg("Error: Domain {domain} is not in the allowed domains list", <<domain>>)

\* C13: with a non-empty ALLOWED_DOMAINS, an http(s) URL whose host is
\* neither an entry nor a subdomain of one is answered with the error naming
\* that host and axios.get is not called; with an empty ALLOWED_DOMAINS every
\* http(s) URL goes on to axios.get and none is answered with that error.
C13_DomainAllowList ==
    /\ (UrlChecked /\ Len(config.ALLOWED_DOMAINS) > 0 /\ ~HostListed) =>
          /\ pDone
          /\ resp = ErrorResponse(DomainRejectedText(urlHostname(req.source)))
          /\ log = <<>>
    /\ (UrlChecked /\ Len(config.ALLOWED_DOMAINS) = 0) =>
          /\ pc = "axiosGet" \/ (Len(log) >= 1 /\ log[1] = "axios.get")
          /\ resp # ErrorResponse(DomainRejectedText(urlHostname(req.source)))

\* a host that merely ends like an allowed domain is rejected
C13_Witness ==
    /\ pDone
    /\ req.source = sURL_PNG
    /\ config.ALLOWED_DOMAINS = <<sEXAMPLE_COM>>
    /\ resp = ErrorResponse(DomainRejectedText(urlHostname(sURL_PNG)))
    /\ log = <<>>


\* readVisual handed the request to handleBase64, and a data: reference
\* has the form parseDataUrl accepts
InlineData ==
    /\ req # NoRequest
    /\ req.entry = "readVisual"
    /\ detectSourceType(req.source, TRUE) = "base64"
    /\ startsWith(req.source, sDATA) => parseDataUrl(req.source).matched

\* the two answers of handleBase64 for text that is not usable base64
InvalidEncodingAnswers ==
    {ErrorResponse(InvalidBase64Text), ErrorResponse(EmptyBufferText)}

\* C14: for readVisual with raw base64 or a well-formed data URL, the answer
\* is an invalid-base64 error exactly when the payload is empty, has a
\* stripped length that is not a multiple of 4, leaves the base64 alphabet
\* with at most two trailing '=', or decodes to zero bytes; a structurally
\* valid payload of any length that decodes to a byte is not so rejected.
C14_Original ==
    (pDone /\ InlineData) =>
        (resp \in InvalidEncodingAnswers
            <=> \/ ~pdfIsValidBase64(handleBase64Data(req.source))
                \/ base64DecodedLength(handleBase64Data(req.source)) = 0)

\* what handleBase64 does: the payload is also rejected when it is shorter
\* than MIN_BASE64_LEN characters
C14_ShortRejected ==
    (pDone /\ InlineData) =>
        (resp \in InvalidEncodingAnswers
            <=> \/ ~pdfIsValidBase64(handleBase64Data(req.source))
                \/ Len(handleBase64Data(req.source)) < MIN_BASE64_LEN
                \/ base64DecodedLength(handleBase64Data(req.source)) = 0)

\* data:image/png;base64,QUJD is answered 'Error: Invalid base64 string'
C14_Witness ==
    /\ pDone
    /\ req.entry = "readVisual"
    /\ req.source = sDATA_PNG \o sB64_SHORT
    /\ pdfIsValidBase64(sB64_SHORT)
    /\ base64DecodedLength(sB64_SHORT) = 3
    /\ resp = ErrorResponse(InvalidBase64Text)


\* the text is empty, has a stripped length that is not a multiple of 4,
\* holds a character that is neither of the alphabet nor '=', or decodes to
\* no byte at all (whitespace being stripped first)
UnusableBase64(base64) ==
    \/ Len(cleanBase64(base64)) = 0
    \/ Len(cleanBase64(base64)) % 4 # 0
    \/ \E i \in 1..Len(cleanBase64(base64)) :
          cleanBase64(base64)[i] \notin B64Chars \cup {"="}
    \/ base64DecodedLength(cleanBase64(base64)) = 0

\* the calls that make up the document renderer
RendererCalls == {"import", "pdf", "getPage"}

\* C15: extractPdfFromBase64 answers every unusable base64 text with an
\* error whose message contains 'Invalid base64', and neither pdf-to-img
\* is loaded nor a document opened nor a page rendered for it.
C15_InvalidBase64 ==
    (req # NoRequest /\ req.entry = "extractPdfFromBase64"
        /\ pc # "decodeBase64" /\ UnusableBase64(req.source)) =>
        /\ pDone
        /\ resp \in InvalidEncodingAnswers
        /\ loc.pdfInput = "none"
        /\ \A i \in 1..Len(log) : log[i] \notin RendererCalls

\* '====' is of the right length and alphabet, and decodes to nothing
C15_Witness ==
    /\ pDone
    /\ req.entry = "extractPdfFromBase64"
    /\ req.source = sB64_PADDING
    /\ base64DecodedLength(sB64_PADDING) = 0
    /\ resp = ErrorResponse(InvalidBase64Text)
    /\ log = <<>>


\* the text reads data:<mime>;base64,<payload> for some non-empty mime and
\* some non-empty payload
DataUrlForm(source) ==
    \E k \in (Len(sDATA) + 2)..Len(source) :
        /\ startsWith(source, sDATA)
        /\ startsWith(SubSeq(source, k, Len(source)), sBASE64_MARK)
        /\ k + Len(sBASE64_MARK) <= Len(source)

\* readVisual has classified a data: reference and handleBase64 has acted
DataReferenceHandled ==
    /\ req # NoRequest
    /\ req.entry = "readVisual"
    /\ startsWith(req.source, sDATA)
    /\ pc \notin {"detectSourceType", "decodeBase64"}

\* C16: a reference that starts with 'data:' without being of the form
\* data:<mime>;base64,<non-empty payload> is answered with an error result
\* whose text is 'Error: Invalid data URL format'; nothing is decoded from
\* base64, no renderer call is made and processImageBuffer is not run.
C16_MalformedDataUrl ==
    (DataReferenceHandled /\ ~DataUrlForm(req.source)) =>
        /\ pDone
        /\ IsErrorResponse(resp)
        /\ resp = ErrorResponse(InvalidDataUrlText)
        /\ loc.payload = NoPayload
        /\ loc.pdfInput = "none"
        /\ loc.pib = NoPib
        /\ log = <<>>

\* data:image/png,AAAA... carries usable base64 behind a malformed prefix
C16_Witness ==
    /\ pDone
    /\ req.entry = "readVisual"
    /\ req.source = sDATA_NOMARK \o sB64_IMAGE
    /\ isValidBase64(sB64_IMAGE)
    /\ req.mime_type.present
    /\ resp = ErrorResponse(InvalidDataUrlText)


\* readVisual holds a payload of admissible size and has chosen its branch
Routed ==
    /\ req # NoRequest
    /\ req.entry = "readVisual"
    /\ pc \notin {"detectSourceType", "existsSync", "readFileSync",
                  "validateUrl", "axiosGet", "decodeBase64"}
    /\ loc.payload.length > 0
    /\ loc.payload.length <= config.MAX_IMAGE_SIZE

\* the MIME type declared for the payload: the content-type header of a URL,
\* the MIME of a data URL, the mime_type hint of raw base64, none for a file
DeclaredMime ==
    IF detectSourceType(req.source, TRUE) = "url" THEN loc.contentType
    ELSE IF startsWith(req.source, sDATA)
    THEN SubSeq(req.source, Len(sDATA) + 1, indexOf(req.source, ";") - 1)
    ELSE IF detectSourceType(req.source, TRUE) = "base64" /\ req.mime_type.present
    THEN req.mime_type.value
    ELSE <<>>

\* the three signs of a document
DocumentSigns ==
    \/ loc.payload.length >= 5 /\ loc.payload.pdfMagic
    \/ includesSeq(DeclaredMime, sPDF)
    \/ /\ detectSourceType(req.source, TRUE) \in {"file", "url"}
       /\ endsWith(toLowerCase(req.source), sDOT_PDF)

\* the payload went to the document renderer
TreatedAsDocument == loc.pdfInput # "none"

\* C17: readVisual hands a payload to the document renderer exactly when
\* its first five bytes are '%PDF-', or its declared MIME type contains
\* 'pdf', or the path or URL ends in '.pdf' whatever the case; any other
\* payload goes to the image decoder and no renderer call is made for it,
\* and for a document processImageBuffer only ever runs on a rendered page.
C17_DocumentRouting ==
    Routed =>
        /\ TreatedAsDocument <=> DocumentSigns
        /\ ~TreatedAsDocument =>
              /\ pc \notin {"getPdfToImg", "pdf", "getPage"}
              /\ \A i \in 1..Len(log) : log[i] \notin RendererCalls
        /\ TreatedAsDocument =>
              /\ pc = "processImageBuffer" => log[Len(log)] = "getPage"
              /\ \A i \in 1..Len(log) :
                    log[i] = "processImageBuffer" => (i > 1 /\ log[i-1] = "getPage")

\* a file named .PDF holding a decodable image is opened by the renderer
C17_Witness ==
    /\ req.entry = "readVisual"
    /\ req.source = sFILE_PDF
    /\ loc.payload.image.decodable
    /\ ~loc.payload.pdfMagic
    /\ loc.pdfInput = "path"
    /\ Len(log) >= 1 /\ log[Len(log)] = "pdf"


\* compressImage rejected inside processImageBuffer
CompressionFailed ==
    /\ Len(loc.pib.calls) >= 2
    /\ loc.pib.calls[Len(loc.pib.calls)] = "console.warn"
    /\ loc.pib.calls[Len(loc.pib.calls) - 1] = "compress"

\* the bytes handed to compressImage: the buffer processImageBuffer
\* received, cropped if a rectangle was extracted and resized if the resize
\* step ran
PreCompressionBuffer ==
    IF loc.pib.resized
    THEN resizeBuffer(IF loc.pib.focus.extract
                      THEN extractBuffer(loc.imageBuffer, loc.pib.focus)
                      ELSE loc.imageBuffer,
                      resizeStep(loc.pib.entering.width, loc.pib.entering.height,
                                 DEFAULT_MAX_WIDTH, DEFAULT_MAX_HEIGHT).dims)
    ELSE IF loc.pib.focus.extract
    THEN extractBuffer(loc.imageBuffer, loc.pib.focus)
    ELSE loc.imageBuffer

\* C18: when compressImage fails the request still ends in a successful
\* result without error flag; its image part holds the base64 of the bytes
\* that were handed to compressImage and the metadata size is their length.
C18_CompressionFailureHidden ==
    (pc # "idle" /\ CompressionFailed) =>
        /\ pDone
        /\ IsSuccessResponse(resp)
        /\ ~resp.isError
        /\ resp.content[2].data = [base64Of |-> PreCompressionBuffer]
        /\ resp.content[1].text.size = [lengthOf |-> PreCompressionBuffer]
        /\ "compress" \notin {PreCompressionBuffer.ops[i] :
                                  i \in 1..Len(PreCompressionBuffer.ops)}

\* an 800x600 image is resized, its compression fails, and the resized
\* bytes are returned
C18_Witness ==
    /\ pDone
    /\ CompressionFailed
    /\ loc.pib.resized
    /\ loc.imageBuffer = LargeImage
    /\ IsSuccessResponse(resp)
    /\ resp.content[2].data.base64Of.ops = <<"resize">>


\* processImageBuffer got as far as building its result
PipelineCompleted ==
    \E i \in 1..Len(loc.pib.calls) : loc.pib.calls[i] = "compress"

\* the bytes processImageBuffer returns, whatever the metadata says
ReturnedBuffer ==
    IF CompressionFailed THEN PreCompressionBuffer
    ELSE compressImage(PreCompressionBuffer, loc.format)

\* C19: the metadata of a successful result carries 'info' exactly when
\* width x height of the image handed to processImageBuffer, before crop
\* and resize, exceeds 300000 and neither focus_xyxy nor focal_point was
\* supplied; with or without it, a pipeline that reaches its end answers
\* with a success whose image part is the processed bytes.
C19_InfoAdvisory ==
    /\ (pDone /\ IsSuccessResponse(resp)) =>
          (resp.content[1].text.info
              <=> /\ loc.imageBuffer.width * loc.imageBuffer.height
                        > LARGE_IMAGE_PIXELS
                  /\ ~req.focus_xyxy.present
                  /\ ~req.focal_point.present)
    /\ (pc # "idle" /\ PipelineCompleted) =>
          /\ pDone
          /\ IsSuccessResponse(resp)
          /\ resp.content[2].data = [base64Of |-> ReturnedBuffer]

\* an 800x600 image without region parameters is answered with the hint
C19_Witness ==
    /\ pDone
    /\ IsSuccessResponse(resp)
    /\ loc.imageBuffer = LargeImage
    /\ ~req.focus_xyxy.present /\ ~req.focal_point.present
    /\ resp.content[1].text.info
    /\ resp.content[2].data = [base64Of |-> ReturnedBuffer]


\* a request of one of the three image-only entry points is in progress
ImageOnlyRequest ==
    /\ req # NoRequest
    /\ req.entry \in {"extractImageFromFile", "extractImageFromUrl",
                      "extractImageFromBase64"}

\* the payload has been acquired and is of admissible size
PayloadAdmitted ==
    /\ pc \notin {"existsSync", "readFileSync", "validateUrl", "axiosGet",
                  "decodeBase64"}
    /\ loc.payload.length > 0
    /\ loc.payload.length <= config.MAX_IMAGE_SIZE

\* sharp(buffer).metadata() of extractImageFromUrl / extractImageFromBase64
\* rejected the payload
DecodeRejected ==
    /\ pDone
    /\ ~loc.payload.image.decodable
    /\ resp \in {ErrorResponse(CaughtText(SharpInputError)),
                 ErrorResponse(CouldNotProcessText(SharpInputError))}

\* C20: extractImageFromFile, extractImageFromUrl and extractImageFromBase64
\* never classify the content and never load pdf-to-img, open a document or
\* render a page; an admitted payload, '%PDF-' bytes and '.pdf' names
\* included, goes to the image decoder and processImageBuffer, and a
\* successful result has no page, totalPages or dpi in its metadata.
C20_ImageOnly ==
    ImageOnlyRequest =>
        /\ pc \notin {"detectSourceType", "getPdfToImg", "pdf", "getPage"}
        /\ \A i \in 1..Len(log) : log[i] \notin RendererCalls
        /\ loc.pdfInput = "none"
        /\ loc.extraMetadata = NoExtra
        /\ (pDone /\ IsSuccessResponse(resp)) => ~resp.content[1].text.extra.has
        /\ PayloadAdmitted =>
              \/ pc = "processImageBuffer"
              \/ \E i \in 1..Len(log) : log[i] = "processImageBuffer"
              \/ DecodeRejected

\* /doc/a.PDF holding '%PDF-' bytes is handed to processImageBuffer, whose
\* decoder rejects it
C20_Witness ==
    /\ pDone
    /\ req.entry = "extractImageFromFile"
    /\ req.source = sFILE_PDF
    /\ loc.payload.pdfMagic
    /\ log = <<"existsSync", "readFileSync", "processImageBuffer">>
    /\ IsErrorResponse(resp)


\* a request of one of the six extract_* tools is in progress
ExtractRequest == req # NoRequest /\ req.entry # "readVisual"

\* what the step at the current label makes of request, for every answer
\* the collaborator of that step can give
StepsOf(request) ==
    [start |-> entryLabel(request.entry),
     existsSync |-> [e \in BOOLEAN |-> existsSyncStep(request, e, loc)],
     readFileSync |->
        IF pc = "readFileSync"
        THEN [r \in ReadResults |->
                 readFileSyncStep(request, r, config.MAX_IMAGE_SIZE, loc)]
        ELSE <<>>,
     validateUrl |->
        IF pc = "validateUrl"
        THEN validateUrlStep(request, config.ALLOWED_DOMAINS, loc)
        ELSE Goto("none", loc),
     axiosGet |->
        IF pc = "axiosGet"
        THEN [g \in GetResults |->
                 axiosGetStep(request, g, config.MAX_IMAGE_SIZE, loc)]
        ELSE <<>>,
     decodeBase64 |->
        IF pc = "decodeBase64"
        THEN [d \in DecodedImages |->
                 decodeBase64Step(request, d, config.MAX_IMAGE_SIZE, loc)]
        ELSE <<>>,
     processImageBuffer |->
        IF pc = "processImageBuffer"
        THEN [oc \in SharpOutcomes |->
                 processImageBuffer(PipeParamsOf(request, loc),
                                    pibMaxima(request).width,
                                    pibMaxima(request).height, oc)]
        ELSE <<>>]

\* C21: resize, max_width and max_height of the extract_* tools have no
\* effect: at every step of a request, the same request with any other
\* values for the three parameters starts at the same place and is taken to
\* the same locals, the same next step and the same result by every answer
\* of the collaborators; and a successful result is never larger than
\* DEFAULT_MAX_WIDTH x DEFAULT_MAX_HEIGHT, the resize having run exactly when
\* the image entering it was larger.
C21_SizingIgnored ==
    ExtractRequest =>
        /\ \A z \in SizingOptions :
              StepsOf(withSizing(req, z[1], z[2], z[3])) = StepsOf(req)
        /\ (pDone /\ IsSuccessResponse(resp)) =>
              /\ resp.content[1].text.width <= DEFAULT_MAX_WIDTH
              /\ resp.content[1].text.height <= DEFAULT_MAX_HEIGHT
              /\ loc.pib.resized <=> \/ loc.pib.entering.width > DEFAULT_MAX_WIDTH
                                     \/ loc.pib.entering.height > DEFAULT_MAX_HEIGHT

\* resize: false with max_width = max_height = 1000 on an 800x600 image:
\* the result is 512x384
C21_Witness ==
    /\ pDone
    /\ req.entry = "extractImageFromFile"
    /\ ~req.resize /\ req.max_width = 1000 /\ req.max_height = 1000
    /\ loc.imageBuffer = LargeImage
    /\ ~req.focus_xyxy.present /\ ~req.focal_point.present
    /\ IsSuccessResponse(resp)
    /\ resp.content[1].text.width = 512
    /\ resp.content[1].text.height = 384



\* pdf(input) has answered the request in progress
PdfAnswered == \E i \in 1..Len(log) : log[i] = "pdf"

\* the document was opened and its length is 0, NaN or not a number
PageCountUnknown ==
    /\ loc.opened.ok
    /\ \/ ~loc.opened.length.isNumber
       \/ loc.opened.length.isNaN
       \/ loc.opened.length.value = 0

\* an answer that names a page out of range
OutOfRangeAnswers ==
    {ErrorResponse(CaughtText(OutOfRangeError(n, m))) :
        n \in PageNumbers, m \in 0..(MaxPages + 1)}

\* C24: an opened document whose length is 0 or not a number is answered
\* with 'Failed to determine PDF page count' whatever page was asked for,
\* page 0 included, without any page being rendered; the 'out of range'
\* answer is given only for a document that reported a positive length.
C24_PageCountFirst ==
    /\ (PdfAnswered /\ PageCountUnknown) =>
          /\ pDone
          /\ resp = ErrorResponse(CaughtText(PageCountError))
          /\ resp \notin OutOfRangeAnswers
          /\ \A i \in 1..Len(log) : log[i] # "getPage"
    /\ (pDone /\ resp \in OutOfRangeAnswers) =>
          /\ loc.opened.ok
          /\ loc.opened.length.isNumber /\ ~loc.opened.length.isNaN
          /\ loc.opened.length.value >= 1

\* page 0 of a document reporting length 0
C24_Witness ==
    /\ pDone
    /\ PdfAnswered
    /\ req.page = Given(0)
    /\ loc.opened.ok /\ loc.opened.length.isNumber /\ loc.opened.length.value = 0
    /\ ~loc.opened.length.isNaN
    /\ resp = ErrorResponse(CaughtText(PageCountError))



\* the rectangle one region of four numbers resolves to on its own
ResolvedAlone(v, xyxy) ==
    IF AllInUnit(v) THEN C5_AsRatios(v, xyxy, fW, fH) ELSE C5_AsPixels(v, xyxy)

\* C28: a focus_xyxy of four numbers decides the crop alone, whatever
\* focal_point holds; focal_point decides it only when it has four numbers and
\* focus_xyxy is absent or has not; when neither has four numbers nothing is
\* cropped and the request does not fail for it.
C28_OneRegionDecides ==
    fDone =>
        LET f == fOut.trace.focus
        IN  /\ hasLen4(fXyxy) =>
                  /\ f.by = "focus_xyxy"
                  /\ f.resolved = ResolvedAlone(fXyxy.v, TRUE)
            /\ (~hasLen4(fXyxy) /\ hasLen4(fFocal)) =>
                  /\ f.by = "focal_point"
                  /\ f.resolved = ResolvedAlone(fFocal.v, FALSE)
            /\ (~hasLen4(fXyxy) /\ ~hasLen4(fFocal)) =>
                  /\ f.by = "none"
                  /\ ~f.extract
                  /\ \A i \in 1..Len(fOut.trace.calls) :
                        fOut.trace.calls[i] # "extract"
                  /\ fOut.trace.entering = [width |-> fW, height |-> fH]
                  /\ fOut.kind = "throw" => fOut.trace.resized

\* both parameters hold four numbers naming different rectangles, and the
\* crop is the one of focus_xyxy
C28_Witness ==
    /\ fReturned
    /\ hasLen4(fXyxy) /\ hasLen4(fFocal)
    /\ ResolvedAlone(fXyxy.v, TRUE) # ResolvedAlone(fFocal.v, FALSE)
    /\ fOut.trace.focus.extract
    /\ fOut.trace.focus.by = "focus_xyxy"
    /\ fOut.trace.focus.rect = [left |-> 1, top |-> 1, width |-> 1, height |-> 1]


\* C29: a resolved left (top) below 0 becomes 0 while the resolved width
\* (height) is kept, cut only where it passes the right (bottom) side of the
\* image; the crop is not the requested rectangle intersected with the image.
C29_ClampKeepsSize ==
    (fDone /\ fRegionGiven) =>
        LET f == fOut.trace.focus
        IN  /\ f.resolved.left < 0 =>
                  /\ f.rect.left = 0
                  /\ f.rect.width = (IF f.resolved.width > fW THEN fW
                                     ELSE f.resolved.width)
            /\ f.resolved.top < 0 =>
                  /\ f.rect.top = 0
                  /\ f.rect.height = (IF f.resolved.height > fH THEN fH
                                      ELSE f.resolved.height)

\* a crop that starts at 0 with the requested width and ends to the right of
\* the requested right edge
C29_Witness ==
    /\ fReturned
    /\ fOut.trace.focus.extract
    /\ fOut.trace.focus.resolved.left < 0
    /\ fOut.trace.focus.rect.left = 0
    /\ fOut.trace.focus.rect.width = fOut.trace.focus.resolved.width
    /\ fOut.trace.focus.rect.width >
           fOut.trace.focus.resolved.left + fOut.trace.focus.resolved.width
    /\ fOut.trace.focus.resolved.left + fOut.trace.focus.resolved.width > 0
    /\ fOut.trace.focus.rect.width < fW

-----------------------------------------------------------------------------
(* Further claims on the Source Classifier, checked under SpecDetect *)

SourceTypes == {"url", "file", "base64"}

\* C25: detectSourceType answers every reference with exactly one of "url",
\* "file" and "base64"; the answer is the same whether or not a file exists
\* at the referenced path; and a reference that matches none of the URL,
\* data:, path-shape and plausible-base64 rules is answered "file".
C25_TotalAndPure ==
    /\ detectSourceType(dSource, dExists) \in SourceTypes
    /\ detectSourceType(dSource, TRUE) = detectSourceType(dSource, FALSE)
    /\ dResult # "none" =>
          /\ dResult \in SourceTypes
          /\ dResult = detectSourceType(dSource, ~dExists)
          /\ (/\ ~startsWith(dSource, <<"h","t","t","p",":","/","/">>)
              /\ ~startsWith(dSource, <<"h","t","t","p","s",":","/","/">>)
              /\ ~startsWith(dSource, <<"d","a","t","a",":">>)
              /\ ~isFilePath(dSource)
              /\ ~isValidBase64(dSource))
             => dResult = "file"

\* a path-shaped reference with no file behind it that is also plausible
\* base64
C25_Witness ==
    /\ dResult = "file"
    /\ ~dExists
    /\ isFilePath(dSource)
    /\ isValidBase64(dSource)


\* the encoding of the bytes a successful response carries
PayloadEncoding == resp.content[2].data.base64Of.enc

\* C30: in every successful result the mimeType of the image part and the
\* format field of the metadata both name the encoding of the bytes returned.
C30_Original ==
    (pDone /\ IsSuccessResponse(resp)) =>
        /\ resp.content[2].mimeType = sIMAGE_ \o PayloadEncoding
        /\ resp.content[1].text.format = PayloadEncoding

-----------------------------------------------------------------------------
(* Claims on requests in flight together, checked under SpecConc *)

\* C22: whatever else is in flight and whatever was served before, a
\* request that has its result has the result it gets when it is the only
\* request the process ever serves, the collaborators answering alike.
C22_ResultAsAlone ==
    \A k \in Tasks :
        tasks[k].pc = "done" =>
            tasks[k].resp = resultAlone(tasks[k].req, tasks[k].world,
                                        config.MAX_IMAGE_SIZE)

\* both tasks render a page of the same document, the second having found
\* the module loaded by the first
C22_Witness ==
    /\ tasks["a"].pc = "done" /\ tasks["b"].pc = "done"
    /\ IsSuccessResponse(tasks["a"].resp) /\ IsSuccessResponse(tasks["b"].resp)
    /\ tasks["a"].req.entry = "extractPdfFromFile"
    /\ tasks["b"].req.entry = "extractPdfFromFile"
    /\ importsIn(tasks["a"].log) = 1
    /\ importsIn(tasks["b"].log) = 0

\* C26: over any sequence or interleaving of document requests, through
\* extract_pdf_* and read_visual alike, the expression import('pdf-to-img')
\* is evaluated at most once in the life of the process.
C26_Original == imports <= 1

\* C27: once requests have ended in an error, of whatever kind, the
\* configuration is as it was, a pdfToImgMod that is set holds a module whose
\* import resolved, and every request begun after such an error is answered
\* as it would be had no request been made before it.
C27_ErrorsLeaveNoTrace ==
    failed >= 1 =>
        /\ config = DefaultConfig
        /\ (pdfToImgMod_pdfUtils \/ pdfToImgMod_readVisual) => installed
        /\ \A k \in Tasks :
              (tasks[k].pc = "done" /\ tasks[k].after >= 1) =>
                  tasks[k].resp = resultAlone(tasks[k].req, tasks[k].world,
                                              config.MAX_IMAGE_SIZE)

\* a document request answered with an import error although it began after
\* another request had failed on the same import
C27_Witness ==
    \E k \in Tasks :
        /\ tasks[k].pc = "done"
        /\ tasks[k].after >= 1
        /\ ~installed
        /\ tasks[k].resp = ErrorResponse(CaughtText(ImportError))
        /\ importsIn(tasks[k].log) = 1


-----------------------------------------------------------------------------
(* Further claims on the Region & Scale Normalizer, checked under SpecFocus *)

\* the position of the first call of that name in calls, 0 if there is none
callIndex(calls, name) ==
    IF \E i \in 1..Len(calls) : calls[i] = name
    THEN CHOOSE i \in 1..Len(calls) :
             calls[i] = name /\ \A j \in 1..(i - 1) : calls[j] # name
    ELSE 0

\* the rectangle of the request resolved and clamped on the image received
RectOnOriginal ==
    clampFocus(resolveFocus(fImage.width, fImage.height, fXyxy, fFocal),
               fImage.width, fImage.height)

\* C23: the region is resolved and clamped against the width and height of
\* the image as received, sharp.extract comes before sharp.resize, the
\* resize step is entered with the size of the cropped image, and the size
\* reported is that of the crop scaled into the maxima.
C23_CropBeforeResize ==
    (fDone /\ fOut.trace.focus.extract) =>
        /\ fOut.trace.focus.rect = RectOnOriginal
        /\ callIndex(fOut.trace.calls, "extract") > 0
        /\ callIndex(fOut.trace.calls, "resize") > 0 =>
              callIndex(fOut.trace.calls, "extract")
                  < callIndex(fOut.trace.calls, "resize")
        /\ callIndex(fOut.trace.calls, "resize") > 0 =>
              /\ fOut.trace.entering.width = RectOnOriginal.width
              /\ fOut.trace.entering.height = RectOnOriginal.height
        /\ fReturned =>
              /\ fOut.response.content[1].text.width =
                    sharpResizeInside(RectOnOriginal.width, RectOnOriginal.height,
                                      Min(RectOnOriginal.width, fMax.width),
                                      Min(RectOnOriginal.height, fMax.height)).width
              /\ fOut.response.content[1].text.height =
                    sharpResizeInside(RectOnOriginal.width, RectOnOriginal.height,
                                      Min(RectOnOriginal.width, fMax.width),
                                      Min(RectOnOriginal.height, fMax.height)).height

\* a pixel-mode region wider than the maximum width, cut from an image
\* larger than the maxima and then scaled down
C23_Witness ==
    /\ fReturned
    /\ fOut.trace.focus.extract
    /\ fOut.trace.focus.mode = "pixel"
    /\ fOut.trace.resized
    /\ fImage.width > fMax.width
    /\ fOut.trace.focus.rect.width > fMax.width
    /\ fOut.trace.focus.rect.left + fOut.trace.focus.rect.width > fMax.width
    /\ fOut.response.content[1].text.width = fMax.width

=============================================================================
